---- MODULE Spec2Model ----
(***************************************************************************)
(* PDF-Vault: the seal layer (SealService), the proof-record store         *)
(* (MemStorage) and the HTTP routes that drive them.                       *)
(*                                                                         *)
(* Strings are sequences of one-character strings, buffers are sequences   *)
(* of bytes (0..255).  An optional value (a TypeScript `x?: T`, a query    *)
(* parameter that may be absent, a nullable column) is a record            *)
(* [def, val]; Undefined is the absent one.                                *)
(***************************************************************************)
EXTENDS Integers, Sequences, FiniteSets, TLC

----------------------------------------------------------------------------
(* Bounds of the model *)

\* registrations (POST /api/proof/register) performed in one run
MaxRegistrations == 1

\* registrations of the specification that interleaves the steps of the handlers
MaxInterleaved == 2

----------------------------------------------------------------------------
(* Optional values and JavaScript truthiness *)

Undefined == [def |-> FALSE, val |-> <<>>]

Def(v) == [def |-> TRUE, val |-> v]

\* `if (x)` on a string | undefined: undefined and "" are falsy
Truthy(x) == x.def /\ x.val # <<>>

----------------------------------------------------------------------------
(* String.prototype.toLowerCase, Buffer.toString('hex') *)

UpperLetters ==
  <<"A","B","C","D","E","F","G","H","I","J","K","L","M",
    "N","O","P","Q","R","S","T","U","V","W","X","Y","Z">>

LowerLetters ==
  <<"a","b","c","d","e","f","g","h","i","j","k","l","m",
    "n","o","p","q","r","s","t","u","v","w","x","y","z">>

LowerChar(c) ==
  IF \E i \in 1..Len(UpperLetters) : UpperLetters[i] = c
  THEN LowerLetters[CHOOSE i \in 1..Len(UpperLetters) : UpperLetters[i] = c]
  ELSE c

toLowerCase(s) == [i \in 1..Len(s) |-> LowerChar(s[i])]

HexDigits == <<"0","1","2","3","4","5","6","7","8","9","a","b","c","d","e","f">>

RECURSIVE toHex(_)
toHex(bytes) ==
  IF bytes = <<>> THEN <<>>
  ELSE <<HexDigits[(Head(bytes) \div 16) + 1], HexDigits[(Head(bytes) % 16) + 1]>>
       \o toHex(Tail(bytes))

\* crypto.randomBytes(n): the n bytes the entropy source yields for a seed
randomBytes(n, seed) == [i \in 1..n |-> (seed * 89 + i * 37 + 139) % 256]

HexValue(c) == (CHOOSE i \in 1..16 : HexDigits[i] = c) - 1

\* Buffer.from(s, 'hex')
RECURSIVE fromHex(_)
fromHex(s) ==
  IF Len(s) < 2 THEN <<>>
  ELSE <<HexValue(s[1]) * 16 + HexValue(s[2])>> \o fromHex(SubSeq(s, 3, Len(s)))

\* Buffer.prototype.subarray(start, end): 0-based, end exclusive, a negative
\* index counts from the end, both are clamped to the buffer
Clamp(i, len) == IF i < 0 THEN (IF len + i < 0 THEN 0 ELSE len + i)
                 ELSE (IF i > len THEN len ELSE i)

subarray(buf, start, end) ==
  SubSeq(buf, Clamp(start, Len(buf)) + 1, Clamp(end, Len(buf)))

RECURSIVE WeightedSum(_, _)
WeightedSum(buf, j) ==
  IF buf = <<>> THEN 0
  ELSE (Len(buf) + j) * buf[Len(buf)] + WeightedSum(SubSeq(buf, 1, Len(buf) - 1), j)

----------------------------------------------------------------------------
(* SealService: the cipher (AES-256-GCM) and the hash (SHA-256) *)

IV_LENGTH == 16

AUTH_TAG_LENGTH == 16

KEY_BYTES == 32

\* the counter-mode key stream of the cipher for (key, iv), byte i
KeyStream(key, iv, i) ==
  (key[((i - 1) % Len(key)) + 1] + iv[((i - 1) % Len(iv)) + 1] + i) % 256

\* cipher.update(pdfBytes) ++ cipher.final()
CipherUpdate(key, iv, data) ==
  [i \in 1..Len(data) |-> (data[i] + KeyStream(key, iv, i)) % 256]

\* decipher.update(encrypted)
DecipherUpdate(key, iv, data) ==
  [i \in 1..Len(data) |-> (data[i] + 256 - KeyStream(key, iv, i)) % 256]

\* cipher.getAuthTag(): the tag binds every byte of the key, of the iv and of
\* the body
AuthTag(key, iv, encrypted) ==
  [j \in 1..AUTH_TAG_LENGTH |->
     (key[((j - 1) % Len(key)) + 1]
        + 5 * key[((j + AUTH_TAG_LENGTH - 1) % Len(key)) + 1]
        + 3 * iv[((j - 1) % Len(iv)) + 1] + Len(encrypted)
        + WeightedSum(encrypted, j)) % 256]

\* crypto.createHash('sha256').update(b).digest('hex'): collision-free digest
sha256(bytes) == <<"sha256", bytes>>

computeCiphertextHash(ciphertext) == sha256(ciphertext)

----------------------------------------------------------------------------
(* Inputs the requests are drawn from *)

\* a wallet address of the accepted length (ten characters), in mixed case
WalletOwner == <<"0","x","A","b","C","0","0","0","0","1">>

\* the same address as another client may write it
WalletOwnerLower == <<"0","x","a","b","c","0","0","0","0","1">>

WalletViewer == <<"0","x","1","1","1","a">>

WalletViewerUpper == <<"0","X","1","1","1","A">>

WalletStranger == <<"0","x","2","2","2","b">>

Owners == {WalletOwner}

\* a second registrant, as long as the schema asks
WalletSecondOwner == <<"0","x","D","e","F","0","0","0","0","2">>

Requesters ==
  {WalletOwner, WalletOwnerLower, WalletViewer, WalletViewerUpper, WalletStranger}

\* requester identity of a request: absent, or one of Requesters
ViewerParams == {Undefined} \cup {Def(w) : w \in Requesters}

\* the allowedViewers field of a registration request
ViewerLists == {Undefined, Def(<<WalletViewer>>)}

AccessModes == {"undefined", "owner_only", "specific_wallets", "secret_code"}

SecretSupplied == <<"S","e","c","1">>

SecretOtherCase == <<"s","e","c","1">>

SecretTrailingSpace == <<"S","e","c","1"," ">>

\* the secretAccessCode field of a registration request
CodeInputs == {Undefined, Def(SecretSupplied)}

\* seeds of the entropy source (crypto.randomBytes)
Seeds == {1, 2}

\* uploaded documents (req.file.buffer)
Documents == {<<37, 80, 68, 70>>}

\* the code a registration generates from a seed, in upper case
UpperHexChar(c) ==
  IF \E i \in 1..Len(LowerLetters) : LowerLetters[i] = c
  THEN UpperLetters[CHOOSE i \in 1..Len(LowerLetters) : LowerLetters[i] = c]
  ELSE c

GeneratedCodes == {toHex(randomBytes(8, seed)) : seed \in Seeds}

\* secret code of an access request: absent, empty, a supplied or generated
\* code, or a near miss of one (other letter case, trailing space)
CodeParams ==
  {Undefined, Def(<<>>), Def(SecretSupplied), Def(SecretOtherCase),
   Def(SecretTrailingSpace)}
  \cup {Def(c) : c \in GeneratedCodes}
  \cup {Def([i \in 1..Len(c) |-> UpperHexChar(c[i])]) : c \in GeneratedCodes}

\* credentials of the retrieval route's query string
QueryViewerParams ==
  {Undefined, Def(WalletOwnerLower), Def(WalletViewerUpper), Def(WalletStranger)}

QueryCodeParams ==
  {Undefined, Def(SecretSupplied), Def(SecretOtherCase)}
  \cup {Def(c) : c \in GeneratedCodes}

\* a variant of the id generator that hands out one id to every call
SealIdReused(n) == <<"s","e","a","l","_", HexDigits[1]>>

SealId(n) == <<"s","e","a","l","_", HexDigits[n + 1]>>

ContentId(n) == <<"w","a","l","r","u","s","_", HexDigits[n + 1]>>

ProofCode(n) == <<"P","R","O","O","F","-", HexDigits[n + 1]>>

\* object ids of access requests: every id a registration can make and one
\* that none makes
SealIds == {SealId(n) : n \in 0..MaxRegistrations}

ProofCodes == {ProofCode(n) : n \in 0..MaxRegistrations}

\* plaintexts of the cipher, the empty one among them
Plaintexts == {<<>>, <<0>>, <<255, 0>>} \cup Documents

\* one bit of one byte flipped: position 1 is the first byte, bit 0 the lowest
FlipBit(buf, position, bit) ==
  [i \in 1..Len(buf) |->
     IF i # position THEN buf[i]
     ELSE IF (buf[i] \div (2 ^ bit)) % 2 = 1 THEN buf[i] - 2 ^ bit ELSE buf[i] + 2 ^ bit]

FlippedBits == {0, 7}

\* byte positions of the key that a wrong key differs in
KeyPositions == {1, 17, 32}

----------------------------------------------------------------------------
(* State *)

VARIABLES
  routes,       \* the revision of the route handlers that is deployed
  sealObjects,  \* SealService.sealObjects: sealObjectId -> seal object
  cvProofs,     \* MemStorage.cvProofs: proofCode -> proof record
  blobStore,    \* the Walrus network: contentId -> stored bytes
  requests,     \* history: sealObjectId -> the registration request that made it
  inflight,     \* registrations waiting at an await: sealObjectId -> their locals
  resp          \* the last call: its request, its outcome, the calls it made

vars == <<routes, sealObjects, cvProofs, blobStore, requests, inflight, resp>>

RouteRevisions == {"part_005", "part_006"}

----------------------------------------------------------------------------
(* SealService *)

\* the policy encryptCV stores when the caller passes none
DefaultPolicy ==
  [accessMode |-> "undefined", allowedViewers |-> Def(<<>>),
   secretAccessCode |-> Undefined, requireApproval |-> "false"]

\* encryptCV, the key, the iv and the packed buffer iv ++ encrypted ++ authTag
EncryptionKey(seed) == toHex(randomBytes(KEY_BYTES, seed + 3))

EncryptionIv(seed) == randomBytes(IV_LENGTH, seed + 5)

Ciphertext(pdfBytes, seed) ==
  LET key == fromHex(EncryptionKey(seed))
      iv == EncryptionIv(seed)
      encrypted == CipherUpdate(key, iv, pdfBytes)
  IN iv \o encrypted \o AuthTag(key, iv, encrypted)

\* a variant of encryptCV that inserts the seal object before its key is set
SealObjectKeyPending(ownerAddress, policy, seed) ==
  [ownerAddress |-> ownerAddress, encryptionKey |-> <<>>, policy |-> policy]

\* the seal object encryptCV stores under the new sealObjectId
SealObject(ownerAddress, policy, seed) ==
  [ownerAddress |-> ownerAddress,
   encryptionKey |-> EncryptionKey(seed),
   policy |-> policy]

\* what encryptCV returns to its caller
\* a variant of encryptCV that hands the key back with the ciphertext
EncryptCVResultWithKey(pdfBytes, seed, sealObjectId) ==
  [ciphertext |-> Ciphertext(pdfBytes, seed), sealObjectId |-> sealObjectId,
   encryptionKey |-> Def(EncryptionKey(seed))]

\* (the encryptionKey is not part of the result)
EncryptCVResult(pdfBytes, seed, sealObjectId) ==
  [ciphertext |-> Ciphertext(pdfBytes, seed), sealObjectId |-> sealObjectId,
   encryptionKey |-> Undefined]

Granted(sealObject) ==
  [threw |-> FALSE, message |-> <<>>, arg |-> Undefined,
   decryptKey |-> Def(sealObject.encryptionKey), approved |-> TRUE]

Thrown(message, arg) ==
  [threw |-> TRUE, message |-> message, arg |-> arg,
   decryptKey |-> Undefined, approved |-> FALSE]

MsgSealNotFound == <<"Seal object", "not found">>

MsgInvalidCode == <<"Access denied", "Invalid secret access code">>

MsgWalletDenied == <<"Access denied", "Wallet", "is not authorized to decrypt this CV">>

MsgNoCredential ==
  <<"Access denied", "Please provide either a wallet address or secret access code">>

MsgAuthFailed == <<"Unsupported state or unable to authenticate data">>

\* Method 1 of getDecryptionKey: the secret access code
SecretCodeBranch(sealObject, secretAccessCode) ==
  IF secretAccessCode.val = sealObject.policy.secretAccessCode.val
  THEN Granted(sealObject)
  ELSE Thrown(MsgInvalidCode, Undefined)

\* Method 2 of getDecryptionKey: the wallet (owner or allowed viewer)
WalletBranch(sealObject, viewerAddress) ==
  LET policy == sealObject.policy
      isOwner == toLowerCase(viewerAddress.val) = toLowerCase(sealObject.ownerAddress)
      isAllowedViewer ==
        /\ policy.allowedViewers.def
        /\ \E i \in 1..Len(policy.allowedViewers.val) :
             toLowerCase(policy.allowedViewers.val[i]) = toLowerCase(viewerAddress.val)
      approved == isOwner \/ isAllowedViewer \/ policy.requireApproval # "true"
  IN IF ~approved
     THEN Thrown(MsgWalletDenied, viewerAddress)
     ELSE Granted(sealObject)

\* a variant of getDecryptionKey that looks at the credentials before the lookup
getDecryptionKeyCredentialsFirst(objects, sealObjectId, viewerAddress, secretAccessCode) ==
  IF ~Truthy(viewerAddress) /\ ~Truthy(secretAccessCode)
  THEN Thrown(MsgNoCredential, Undefined)
  ELSE IF sealObjectId \notin DOMAIN objects
  THEN Thrown(MsgSealNotFound, Def(sealObjectId))
  ELSE LET sealObject == objects[sealObjectId]
       IN IF Truthy(secretAccessCode) /\ Truthy(sealObject.policy.secretAccessCode)
          THEN SecretCodeBranch(sealObject, secretAccessCode)
          ELSE IF Truthy(viewerAddress)
               THEN WalletBranch(sealObject, viewerAddress)
               ELSE Thrown(MsgNoCredential, Undefined)

getDecryptionKey(objects, sealObjectId, viewerAddress, secretAccessCode) ==
  IF sealObjectId \notin DOMAIN objects
  THEN Thrown(MsgSealNotFound, Def(sealObjectId))
  ELSE LET sealObject == objects[sealObjectId]
       IN IF Truthy(secretAccessCode) /\ Truthy(sealObject.policy.secretAccessCode)
          THEN SecretCodeBranch(sealObject, secretAccessCode)
          ELSE IF Truthy(viewerAddress)
               THEN WalletBranch(sealObject, viewerAddress)
               ELSE Thrown(MsgNoCredential, Undefined)

\* a variant of decryptCV that takes the twelve-byte iv of the GCM default
decryptCVShortIv(ciphertext, decryptKey) ==
  LET key == fromHex(decryptKey)
      iv == subarray(ciphertext, 0, 12)
      authTag == subarray(ciphertext, Len(ciphertext) - AUTH_TAG_LENGTH, Len(ciphertext))
      encrypted == subarray(ciphertext, 12, Len(ciphertext) - AUTH_TAG_LENGTH)
  IN IF Len(iv) = 12 /\ authTag = AuthTag(key, iv, encrypted)
     THEN [threw |-> FALSE, message |-> <<>>, decrypted |-> Def(DecipherUpdate(key, iv, encrypted))]
     ELSE [threw |-> TRUE, message |-> MsgAuthFailed, decrypted |-> Undefined]

\* a variant of decryptCV that never sets the authentication tag
decryptCVUnauthenticated(ciphertext, decryptKey) ==
  LET key == fromHex(decryptKey)
      iv == subarray(ciphertext, 0, IV_LENGTH)
      encrypted == subarray(ciphertext, IV_LENGTH, Len(ciphertext) - AUTH_TAG_LENGTH)
  IN [threw |-> FALSE, message |-> <<>>, decrypted |-> Def(DecipherUpdate(key, iv, encrypted))]

\* decryptCV: unpack iv, tag and body, verify the tag, decipher
decryptCV(ciphertext, decryptKey) ==
  LET key == fromHex(decryptKey)
      iv == subarray(ciphertext, 0, IV_LENGTH)
      authTag == subarray(ciphertext, Len(ciphertext) - AUTH_TAG_LENGTH, Len(ciphertext))
      encrypted == subarray(ciphertext, IV_LENGTH, Len(ciphertext) - AUTH_TAG_LENGTH)
  IN IF Len(iv) = IV_LENGTH /\ authTag = AuthTag(key, iv, encrypted)
     THEN [threw |-> FALSE, message |-> <<>>, decrypted |-> Def(DecipherUpdate(key, iv, encrypted))]
     ELSE [threw |-> TRUE, message |-> MsgAuthFailed, decrypted |-> Undefined]

----------------------------------------------------------------------------
(* Collaborators of the routes *)

StorageUrl(contentId) == <<"https://walrus.storage/blob/">> \o contentId

\* registerCVProofOnSui: a provisional transaction hash and a fresh proof code
ProvisionalTx(n) == <<"0","x","t","x","_", HexDigits[n + 1]>>

\* transaction hashes a client reports to POST /api/proof/update-tx
TxInputs == {<<"0","x","r","e","a","l">>, <<"0","x","l","a","t","e">>}

\* a variant of the storage that keeps the newest record only
createCVProofReplacing(proofs, insertProof) ==
  [c \in {insertProof.proofCode} |-> insertProof]

\* MemStorage.createCVProof: the record is stored under its proofCode
createCVProof(proofs, insertProof) ==
  [c \in DOMAIN proofs \cup {insertProof.proofCode} |->
     IF c = insertProof.proofCode THEN insertProof ELSE proofs[c]]

\* MemStorage.getCVProofsByWallet
getCVProofsByWallet(proofs, walletAddress) ==
  {proofs[c] : c \in {d \in DOMAIN proofs :
      toLowerCase(proofs[d].walletAddress) = toLowerCase(walletAddress)}}

\* storage.updateCVProofTxHash: replaces the txHash of the record, if any
updateCVProofTxHash(proofs, proofCode, txHash) ==
  IF proofCode \in DOMAIN proofs
  THEN [proofs EXCEPT ![proofCode].txHash = txHash]
  ELSE proofs

\* bytes an untrusted blob store may hold in place of a stored ciphertext: a
\* well-formed ciphertext of another document, sealed as the seed 1 seals
ForgedDocument == <<37, 80, 68, 70, 33>>

TamperedBlobs == {Ciphertext(ForgedDocument, 1)}

----------------------------------------------------------------------------
(* Responses *)

NoResponse ==
  [op |-> "none", target |-> <<>>, viewerAddress |-> Undefined,
   secretAccessCode |-> Undefined, status |-> 0, threw |-> FALSE,
   message |-> <<>>, object |-> Undefined, approved |-> FALSE,
   decryptKey |-> Undefined, proofs |-> {},
   body |-> Undefined, steps |-> <<>>,
   txHash |-> <<>>, replaced |-> <<>>, ciphertext |-> <<>>]

\* res.status(status).json({ message })
JsonMessage(op, target, viewerAddress, secretAccessCode, status, message, steps) ==
  [NoResponse EXCEPT !.op = op, !.target = target, !.viewerAddress = viewerAddress,
     !.secretAccessCode = secretAccessCode, !.status = status,
     !.message = message, !.steps = steps]

\* res.status(status).json(proof) and res.json(proofs)
JsonProofs(op, target, status, proofs, steps) ==
  [NoResponse EXCEPT !.op = op, !.target = target, !.status = status,
     !.proofs = proofs, !.steps = steps]

\* error.message.includes(phrase)
Includes(message, phrase) == \E i \in 1..Len(message) : message[i] = phrase

\* the catch block of GET /api/proof/:proofCode/decrypted
DecryptedCatchStatus(message) ==
  IF Includes(message, "Access denied") THEN 403
  ELSE IF Includes(message, "not found") THEN 404
  ELSE 500

\* Requests are served one at a time: an action is one whole handler, and resp
\* holds what it answered until the response has been sent.
Idle == resp = NoResponse

Respond ==
  /\ resp # NoResponse
  /\ resp' = NoResponse
  /\ UNCHANGED <<inflight, routes, sealObjects, cvProofs, blobStore, requests>>

----------------------------------------------------------------------------
(* POST /api/proof/register *)

\* a variant of step 2 that draws four random bytes instead of eight
GeneratedSecretCodeShort(accessMode, secretAccessCode, seed) ==
  IF accessMode = "secret_code" /\ ~Truthy(secretAccessCode)
  THEN Def(toHex(randomBytes(4, seed)))
  ELSE secretAccessCode

\* step 2: the code is generated when the mode is secret_code and none came
GeneratedSecretCode(accessMode, secretAccessCode, seed) ==
  IF accessMode = "secret_code" /\ ~Truthy(secretAccessCode)
  THEN Def(toHex(randomBytes(8, seed)))
  ELSE secretAccessCode

\* accessMode === "specific_wallets" ? (allowedViewers || []) : []
PolicyViewers(accessMode, allowedViewers) ==
  IF accessMode = "specific_wallets" /\ allowedViewers.def
  THEN Def(allowedViewers.val)
  ELSE Def(<<>>)

\* the policy the earlier revision of the route passes to encryptCV
RegisterPolicy005(accessMode, allowedViewers, generatedSecretCode) ==
  [accessMode |-> "undefined",
   allowedViewers |-> PolicyViewers(accessMode, allowedViewers),
   secretAccessCode |-> generatedSecretCode,
   requireApproval |-> IF accessMode = "owner_only" THEN "true" ELSE "false"]

\* the policy the later revision of the route passes to encryptCV
RegisterPolicy006(accessMode, allowedViewers, generatedSecretCode) ==
  [accessMode |-> IF accessMode = "undefined" THEN "owner_only" ELSE accessMode,
   allowedViewers |-> PolicyViewers(accessMode, allowedViewers),
   secretAccessCode |-> generatedSecretCode,
   requireApproval |-> "undefined"]

RegisterPolicy(revision, accessMode, allowedViewers, generatedSecretCode) ==
  IF revision = "part_005"
  THEN RegisterPolicy005(accessMode, allowedViewers, generatedSecretCode)
  ELSE RegisterPolicy006(accessMode, allowedViewers, generatedSecretCode)

\* a variant of the record that names the first seal object of the store
InsertProofFirstObject(walletAddress, accessMode, allowedViewers, generatedSecretCode, fileHash, sealObjectId, ciphertextHash, contentId, txHash, proofCode) ==
  [walletAddress |-> walletAddress,
   fileHash |-> fileHash,
   sealObjectId |-> SealId(1),
   ciphertextHash |-> ciphertextHash,
   contentId |-> contentId,
   storageUrl |-> StorageUrl(contentId),
   txHash |-> txHash,
   proofCode |-> proofCode,
   secretAccessCode |-> IF Truthy(generatedSecretCode) THEN generatedSecretCode ELSE Undefined,
   allowedViewers |-> IF accessMode = "specific_wallets" /\ allowedViewers.def
                      THEN allowedViewers ELSE Undefined]

\* a variant of the record whose ciphertextHash is the hash of the document
InsertProofPlainHash(walletAddress, accessMode, allowedViewers, generatedSecretCode, fileHash, sealObjectId, ciphertextHash, contentId, txHash, proofCode) ==
  [walletAddress |-> walletAddress,
   fileHash |-> fileHash,
   sealObjectId |-> sealObjectId,
   ciphertextHash |-> fileHash,
   contentId |-> contentId,
   storageUrl |-> StorageUrl(contentId),
   txHash |-> txHash,
   proofCode |-> proofCode,
   secretAccessCode |-> IF Truthy(generatedSecretCode) THEN generatedSecretCode ELSE Undefined,
   allowedViewers |-> IF accessMode = "specific_wallets" /\ allowedViewers.def
                      THEN allowedViewers ELSE Undefined]

\* step 6: the record handed to storage.createCVProof
InsertProof(walletAddress, accessMode, allowedViewers, generatedSecretCode, fileHash, sealObjectId, ciphertextHash, contentId, txHash, proofCode) ==
  [walletAddress |-> walletAddress,
   fileHash |-> fileHash,
   sealObjectId |-> sealObjectId,
   ciphertextHash |-> ciphertextHash,
   contentId |-> contentId,
   storageUrl |-> StorageUrl(contentId),
   txHash |-> txHash,
   proofCode |-> proofCode,
   secretAccessCode |-> IF Truthy(generatedSecretCode) THEN generatedSecretCode ELSE Undefined,
   allowedViewers |-> IF accessMode = "specific_wallets" /\ allowedViewers.def
                      THEN allowedViewers ELSE Undefined]

RegisterSteps ==
  <<"encryptCV", "computeCiphertextHash", "uploadCVToWalrus",
    "registerCVProofOnSui", "createCVProof">>

Register(walletAddress, accessMode, allowedViewers, secretAccessCode, doc, seed) ==
  LET n == Cardinality(DOMAIN sealObjects) + 1
      sealObjectId == SealId(n)
      contentId == ContentId(n)
      proofCode == ProofCode(n)
      fileHash == sha256(doc)
      generatedSecretCode == GeneratedSecretCode(accessMode, secretAccessCode, seed)
      policy == RegisterPolicy(routes, accessMode, allowedViewers, generatedSecretCode)
      encrypted == EncryptCVResult(doc, seed, sealObjectId)
      ciphertextHash == computeCiphertextHash(encrypted.ciphertext)
      proof == InsertProof(walletAddress, accessMode, allowedViewers, generatedSecretCode,
                           fileHash, encrypted.sealObjectId, ciphertextHash, contentId,
                           ProvisionalTx(n), proofCode)
  IN /\ Idle
     /\ n <= MaxRegistrations
     /\ sealObjects' =
          [o \in DOMAIN sealObjects \cup {sealObjectId} |->
             IF o = sealObjectId THEN SealObject(walletAddress, policy, seed)
             ELSE sealObjects[o]]
     /\ blobStore' =
          [c \in DOMAIN blobStore \cup {contentId} |->
             IF c = contentId THEN encrypted.ciphertext ELSE blobStore[c]]
     /\ cvProofs' = createCVProof(cvProofs, proof)
     /\ requests' =
          [o \in DOMAIN requests \cup {sealObjectId} |->
             IF o = sealObjectId
             THEN [walletAddress |-> walletAddress, accessMode |-> accessMode,
                   allowedViewers |-> allowedViewers,
                   secretAccessCode |-> secretAccessCode, doc |-> doc]
             ELSE requests[o]]
     /\ resp' = [JsonProofs("register", proofCode, 201, {proof}, RegisterSteps)
                   EXCEPT !.object = Def(encrypted.sealObjectId),
                          !.decryptKey = encrypted.encryptionKey]
     /\ UNCHANGED <<inflight, routes>>

----------------------------------------------------------------------------
(* POST /api/proof/register from the request as it arrives: the checks that
   come before step 1, then the steps of Register *)

MsgFileRequired == <<"CV file is required">>

MsgViewersFormat ==
  <<"Invalid allowedViewers format", "Must be a JSON array of wallet addresses">>

MsgValidation == <<"Validation failed">>

\* the allowedViewers field of a request body: absent, a string that is not
\* JSON, a string whose JSON is not an array, or a list of addresses
ViewersAbsent == [kind |-> "absent", val |-> <<>>]

ViewersUnparsable == [kind |-> "unparsable", val |-> <<>>]

ViewersScalar == [kind |-> "scalar", val |-> <<>>]

ViewersList(viewers) == [kind |-> "list", val |-> viewers]

\* JSON.parse of the field: throws on a string that is not JSON
ParseViewers(rawViewers) ==
  IF rawViewers.kind = "unparsable"
  THEN [threw |-> TRUE, value |-> rawViewers]
  ELSE [threw |-> FALSE, value |-> rawViewers]

MinWalletLength == 10

SchemaModes == {"owner_only", "specific_wallets", "secret_code"}

\* a variant of the schema that accepts a wallet address of any length
registerSchemaAnyLength(walletAddress, accessMode, parsedViewers) ==
  /\ walletAddress.def
  /\ accessMode \in SchemaModes \cup {"undefined"}
  /\ parsedViewers.kind \in {"absent", "list"}

\* registerSchema.safeParse(parsedBody).success
registerSchema(walletAddress, accessMode, parsedViewers) ==
  /\ walletAddress.def
  /\ Len(walletAddress.val) >= MinWalletLength
  /\ accessMode \in SchemaModes \cup {"undefined"}
  /\ parsedViewers.kind \in {"absent", "list"}

\* the message of the 400 the request is answered with before step 1, or <<>>
RegisterRejection(file, walletAddress, accessMode, rawViewers) ==
  IF ~file.def THEN MsgFileRequired
  ELSE IF ParseViewers(rawViewers).threw THEN MsgViewersFormat
  ELSE IF ~registerSchema(walletAddress, accessMode, ParseViewers(rawViewers).value)
  THEN MsgValidation
  ELSE <<>>

RegisterRequest(file, walletAddress, accessMode, rawViewers, secretAccessCode, seed) ==
  IF RegisterRejection(file, walletAddress, accessMode, rawViewers) # <<>>
  THEN /\ Idle
       /\ resp' = JsonMessage("register", <<>>, walletAddress, secretAccessCode, 400,
                              RegisterRejection(file, walletAddress, accessMode,
                                                rawViewers), <<>>)
       /\ UNCHANGED <<routes, sealObjects, cvProofs, blobStore, requests, inflight>>
  ELSE Register(walletAddress.val, accessMode,
                IF rawViewers.kind = "list" THEN Def(rawViewers.val) ELSE Undefined,
                secretAccessCode, file.val, seed)

----------------------------------------------------------------------------
(* POST /api/proof/register, one step per await.  encryptCV has no await of
   its own, so the handler runs from the request to its first await (the
   upload) in one step; other requests are served while it waits there, at the
   anchoring call and at the storage call. Register above is these four steps
   with nothing served in between. *)

Put(map, key, value) ==
  [k \in DOMAIN map \cup {key} |-> IF k = key THEN value ELSE map[k]]

Remove(map, key) == [k \in DOMAIN map \ {key} |-> map[k]]

\* the catch block: 500 with the message of the error
MsgStepFailed(step) == <<step, "failed">>

RegisterFailed(sealObjectId, steps) ==
  [JsonMessage("register", <<>>, Undefined, Undefined, 500,
               MsgStepFailed(steps[Len(steps)]), steps)
     EXCEPT !.threw = TRUE, !.object = Def(sealObjectId)]

\* steps 1 to 3: hash, secret code, encryptCV (the seal object is stored),
\* ciphertext hash; the locals the handler keeps across its awaits
RegisterBegin(walletAddress, accessMode, allowedViewers, secretAccessCode, doc, seed) ==
  LET n == Cardinality(DOMAIN sealObjects) + 1
      sealObjectId == SealId(n)
      generatedSecretCode == GeneratedSecretCode(accessMode, secretAccessCode, seed)
      policy == RegisterPolicy(routes, accessMode, allowedViewers, generatedSecretCode)
      encrypted == EncryptCVResult(doc, seed, sealObjectId)
  IN /\ Idle
     /\ n <= MaxInterleaved
     /\ sealObjects' = Put(sealObjects, sealObjectId,
                           SealObject(walletAddress, policy, seed))
     /\ requests' = Put(requests, sealObjectId,
                        [walletAddress |-> walletAddress, accessMode |-> accessMode,
                         allowedViewers |-> allowedViewers,
                         secretAccessCode |-> secretAccessCode, doc |-> doc])
     /\ inflight' = Put(inflight, sealObjectId,
                        [n |-> n, pc |-> "uploadCVToWalrus",
                         walletAddress |-> walletAddress, accessMode |-> accessMode,
                         allowedViewers |-> allowedViewers,
                         generatedSecretCode |-> generatedSecretCode,
                         fileHash |-> sha256(doc),
                         ciphertext |-> encrypted.ciphertext,
                         ciphertextHash |-> computeCiphertextHash(encrypted.ciphertext)])
     /\ UNCHANGED <<routes, cvProofs, blobStore, resp>>

\* step 4: the upload returns a content id, or throws
RegisterUpload(sealObjectId, ok) ==
  /\ Idle
  /\ sealObjectId \in DOMAIN inflight
  /\ inflight[sealObjectId].pc = "uploadCVToWalrus"
  /\ IF ok
     THEN /\ blobStore' = Put(blobStore, ContentId(inflight[sealObjectId].n),
                              inflight[sealObjectId].ciphertext)
          /\ inflight' = [inflight EXCEPT ![sealObjectId].pc = "registerCVProofOnSui"]
          /\ UNCHANGED resp
     ELSE /\ resp' = RegisterFailed(sealObjectId, SubSeq(RegisterSteps, 1, 3))
          /\ inflight' = Remove(inflight, sealObjectId)
          /\ UNCHANGED blobStore
  /\ UNCHANGED <<routes, sealObjects, cvProofs, requests>>

\* a variant of step 5 that deletes the uploaded blob when the anchoring fails
RegisterAnchorCompensating(sealObjectId, ok) ==
  /\ Idle
  /\ sealObjectId \in DOMAIN inflight
  /\ inflight[sealObjectId].pc = "registerCVProofOnSui"
  /\ IF ok
     THEN /\ inflight' = [inflight EXCEPT ![sealObjectId].pc = "createCVProof"]
          /\ UNCHANGED <<resp, blobStore>>
     ELSE /\ resp' = RegisterFailed(sealObjectId, SubSeq(RegisterSteps, 1, 4))
          /\ inflight' = Remove(inflight, sealObjectId)
          /\ blobStore' = Remove(blobStore, ContentId(inflight[sealObjectId].n))
  /\ UNCHANGED <<routes, sealObjects, cvProofs, requests>>

\* step 5: the anchoring call returns txHash and proofCode, or throws
RegisterAnchor(sealObjectId, ok) ==
  /\ Idle
  /\ sealObjectId \in DOMAIN inflight
  /\ inflight[sealObjectId].pc = "registerCVProofOnSui"
  /\ IF ok
     THEN /\ inflight' = [inflight EXCEPT ![sealObjectId].pc = "createCVProof"]
          /\ UNCHANGED resp
     ELSE /\ resp' = RegisterFailed(sealObjectId, SubSeq(RegisterSteps, 1, 4))
          /\ inflight' = Remove(inflight, sealObjectId)
  /\ UNCHANGED <<routes, sealObjects, cvProofs, blobStore, requests>>

\* a variant of step 6 whose hashes are those of the registration that began
\* last, as they would be if the handlers kept them in one shared place
RegisterPersistSharedLocals(sealObjectId, ok) ==
  LET locals == inflight[sealObjectId]
      latest == inflight[CHOOSE o \in DOMAIN inflight :
                           \A p \in DOMAIN inflight : inflight[p].n <= inflight[o].n]
      contentId == ContentId(locals.n)
      proofCode == ProofCode(locals.n)
      proof == InsertProof(locals.walletAddress, locals.accessMode,
                           locals.allowedViewers, locals.generatedSecretCode,
                           latest.fileHash, sealObjectId, latest.ciphertextHash,
                           contentId, ProvisionalTx(locals.n), proofCode)
  IN /\ Idle
     /\ sealObjectId \in DOMAIN inflight
     /\ locals.pc = "createCVProof"
     /\ IF ok
        THEN /\ cvProofs' = createCVProof(cvProofs, proof)
             /\ resp' = [JsonProofs("register", proofCode, 201, {proof}, RegisterSteps)
                           EXCEPT !.object = Def(sealObjectId)]
        ELSE /\ resp' = RegisterFailed(sealObjectId, RegisterSteps)
             /\ UNCHANGED cvProofs
     /\ inflight' = Remove(inflight, sealObjectId)
     /\ UNCHANGED <<routes, sealObjects, blobStore, requests>>

\* step 6: the record is persisted and returned, or the storage throws
RegisterPersist(sealObjectId, ok) ==
  LET locals == inflight[sealObjectId]
      contentId == ContentId(locals.n)
      proofCode == ProofCode(locals.n)
      proof == InsertProof(locals.walletAddress, locals.accessMode,
                           locals.allowedViewers, locals.generatedSecretCode,
                           locals.fileHash, sealObjectId, locals.ciphertextHash,
                           contentId, ProvisionalTx(locals.n), proofCode)
  IN /\ Idle
     /\ sealObjectId \in DOMAIN inflight
     /\ locals.pc = "createCVProof"
     /\ IF ok
        THEN /\ cvProofs' = createCVProof(cvProofs, proof)
             /\ resp' = [JsonProofs("register", proofCode, 201, {proof}, RegisterSteps)
                           EXCEPT !.object = Def(sealObjectId)]
        ELSE /\ resp' = RegisterFailed(sealObjectId, RegisterSteps)
             /\ UNCHANGED cvProofs
     /\ inflight' = Remove(inflight, sealObjectId)
     /\ UNCHANGED <<routes, sealObjects, blobStore, requests>>

----------------------------------------------------------------------------
(* sealService.getDecryptionKey, called on its own *)

SealResponse(op, target, sealObjectId, viewerAddress, secretAccessCode, result, steps) ==
  [NoResponse EXCEPT !.op = op, !.target = target,
     !.viewerAddress = viewerAddress, !.secretAccessCode = secretAccessCode,
     !.threw = result.threw, !.message = result.message,
     !.object = Def(sealObjectId), !.approved = result.approved,
     !.decryptKey = result.decryptKey, !.steps = steps]

\* a variant of the evaluation that spends the secret code of a grant by code
GetDecryptionKeyOneTimeCode(sealObjectId, viewerAddress, secretAccessCode) ==
  LET result == getDecryptionKey(sealObjects, sealObjectId, viewerAddress,
                                 secretAccessCode)
  IN /\ Idle
     /\ resp' = SealResponse("getDecryptionKey", sealObjectId, sealObjectId,
                             viewerAddress, secretAccessCode, result,
                             <<"getDecryptionKey">>)
     /\ sealObjects' =
          IF result.approved /\ Truthy(secretAccessCode)
               /\ Truthy(sealObjects[sealObjectId].policy.secretAccessCode)
          THEN [sealObjects EXCEPT ![sealObjectId].policy.secretAccessCode = Undefined]
          ELSE sealObjects
     /\ UNCHANGED <<inflight, routes, cvProofs, blobStore, requests>>

GetDecryptionKey(sealObjectId, viewerAddress, secretAccessCode) ==
  /\ Idle
  /\ resp' = SealResponse("getDecryptionKey", sealObjectId, sealObjectId,
                          viewerAddress, secretAccessCode,
                          getDecryptionKey(sealObjects, sealObjectId,
                                           viewerAddress, secretAccessCode),
                          <<"getDecryptionKey">>)
  /\ UNCHANGED <<inflight, routes, sealObjects, cvProofs, blobStore, requests>>

----------------------------------------------------------------------------
(* sealService.encryptCV and sealService.decryptCV, called on their own *)

\* encryptCV without a policy: the default policy is stored
EncryptCV(pdfBytes, ownerAddress, seed) ==
  LET n == Cardinality(DOMAIN sealObjects) + 1
      sealObjectId == SealId(n)
      encrypted == EncryptCVResult(pdfBytes, seed, sealObjectId)
  IN /\ Idle
     /\ n <= MaxRegistrations
     /\ sealObjects' = Put(sealObjects, sealObjectId,
                           SealObject(ownerAddress, DefaultPolicy, seed))
     /\ requests' = Put(requests, sealObjectId,
                        [walletAddress |-> ownerAddress, accessMode |-> "undefined",
                         allowedViewers |-> Undefined,
                         secretAccessCode |-> Undefined, doc |-> pdfBytes])
     /\ resp' = [NoResponse EXCEPT !.op = "encryptCV", !.target = sealObjectId,
                   !.object = Def(encrypted.sealObjectId),
                   !.decryptKey = encrypted.encryptionKey,
                   !.ciphertext = encrypted.ciphertext,
                   !.steps = <<"encryptCV">>]
     /\ UNCHANGED <<inflight, routes, cvProofs, blobStore>>

\* decryptCV on a buffer and a key: the plaintext, or the error of the cipher
DecryptCV(ciphertext, decryptKey) ==
  LET result == decryptCV(ciphertext, decryptKey)
  IN /\ Idle
     /\ resp' = [NoResponse EXCEPT !.op = "decryptCV",
                   !.decryptKey = Def(decryptKey), !.ciphertext = ciphertext,
                   !.threw = result.threw, !.message = result.message,
                   !.body = result.decrypted, !.steps = <<"decryptCV">>]
     /\ UNCHANGED <<inflight, routes, sealObjects, cvProofs, blobStore, requests>>

----------------------------------------------------------------------------
(* GET /api/proof/:proofCode/decrypted *)

MsgProofNotFound == <<"Proof", "not found">>

MsgBlobNotFound == <<"Encrypted CV", "not found">>

MsgIntegrity == <<"CV integrity check failed", "File may have been tampered with">>

\* the message of the same check in the decrypt-owner route
MsgIntegrityOwner == <<"CV integrity check failed">>

\* the hash mismatch, answered by the route that base belongs to
HashMismatch(base) ==
  [base EXCEPT !.status = 400,
     !.message = IF base.op = "decryptOwner" THEN MsgIntegrityOwner ELSE MsgIntegrity,
     !.steps = base.steps \o <<"computeCiphertextHash">>]

\* a variant of steps 4 to 6 that reports a hash mismatch as an access denial
VerifyAndDecryptDenying(base, proof, encryptedBuffer, decryptKey, failStatus) ==
  IF computeCiphertextHash(encryptedBuffer) # proof.ciphertextHash
  THEN [base EXCEPT !.status = DecryptedCatchStatus(MsgWalletDenied),
          !.message = MsgWalletDenied, !.threw = TRUE,
          !.steps = base.steps \o <<"computeCiphertextHash">>]
  ELSE LET decrypted == decryptCV(encryptedBuffer, decryptKey)
       IN IF decrypted.threw
          THEN [base EXCEPT !.status = failStatus, !.message = decrypted.message,
                  !.threw = TRUE,
                  !.steps = base.steps \o <<"computeCiphertextHash", "decryptCV">>]
          ELSE [base EXCEPT !.status = 200, !.body = decrypted.decrypted,
                  !.steps = base.steps \o <<"computeCiphertextHash", "decryptCV">>]

\* retrieveFromWalrus: the mock returns null; the network returns what it holds
retrieveFromWalrus(blobs, contentId, mock) ==
  IF mock \/ contentId \notin DOMAIN blobs THEN Undefined ELSE Def(blobs[contentId])

\* a variant of steps 4 to 6 that decrypts without comparing the hashes
DecryptUnverified(base, proof, encryptedBuffer, decryptKey, failStatus) ==
  LET decrypted == decryptCV(encryptedBuffer, decryptKey)
  IN IF decrypted.threw
     THEN [base EXCEPT !.status = failStatus, !.message = decrypted.message,
             !.threw = TRUE,
             !.steps = base.steps \o <<"computeCiphertextHash", "decryptCV">>]
     ELSE [base EXCEPT !.status = 200, !.body = decrypted.decrypted,
             !.steps = base.steps \o <<"computeCiphertextHash", "decryptCV">>]

\* steps 4 to 6: integrity check, decryption, the PDF
VerifyAndDecrypt(base, proof, encryptedBuffer, decryptKey, failStatus) ==
  IF computeCiphertextHash(encryptedBuffer) # proof.ciphertextHash
  THEN HashMismatch(base)
  ELSE LET decrypted == decryptCV(encryptedBuffer, decryptKey)
       IN IF decrypted.threw
          THEN [base EXCEPT !.status = failStatus, !.message = decrypted.message,
                  !.threw = TRUE,
                  !.steps = base.steps \o <<"computeCiphertextHash", "decryptCV">>]
          ELSE [base EXCEPT !.status = 200, !.body = decrypted.decrypted,
                  !.steps = base.steps \o <<"computeCiphertextHash", "decryptCV">>]

\* a variant of steps 3 to 6 that compares the hashes before it asks for the key
VerifyThenAccess(op, proofCode, proof, encryptedBuffer, viewerAddress, secretAccessCode, objects, steps, catchAll) ==
  LET result == getDecryptionKey(objects, proof.sealObjectId, viewerAddress,
                                 secretAccessCode)
      unasked == JsonMessage(op, proofCode, viewerAddress, secretAccessCode, 0,
                             <<>>, steps)
      base == SealResponse(op, proofCode, proof.sealObjectId, viewerAddress,
                           secretAccessCode, result, steps \o <<"getDecryptionKey">>)
  IN IF computeCiphertextHash(encryptedBuffer) # proof.ciphertextHash
     THEN HashMismatch(unasked)
     ELSE IF result.threw
     THEN [base EXCEPT !.status = IF catchAll THEN 500
                                  ELSE DecryptedCatchStatus(result.message)]
     ELSE VerifyAndDecrypt(base, proof, encryptedBuffer, result.decryptKey.val,
                           IF catchAll THEN 500
                           ELSE DecryptedCatchStatus(MsgAuthFailed))

\* step 3 and the catch block: the key, or the status the error maps to
AccessThenDecrypt(op, proofCode, proof, encryptedBuffer, viewerAddress, secretAccessCode, objects, steps, catchAll) ==
  LET result == getDecryptionKey(objects, proof.sealObjectId, viewerAddress,
                                 secretAccessCode)
      base == SealResponse(op, proofCode, proof.sealObjectId, viewerAddress,
                           secretAccessCode, result, steps \o <<"getDecryptionKey">>)
  IN IF result.threw
     THEN [base EXCEPT !.status = IF catchAll THEN 500
                                  ELSE DecryptedCatchStatus(result.message)]
     ELSE VerifyAndDecrypt(base, proof, encryptedBuffer, result.decryptKey.val,
                           IF catchAll THEN 500
                           ELSE DecryptedCatchStatus(MsgAuthFailed))

\* a variant of the route that asks for the key before it fetches the blob
DecryptedResponseKeyFirst(proofs, objects, blobs, proofCode, viewerAddress, secretAccessCode, mock) ==
  IF proofCode \notin DOMAIN proofs
  THEN JsonMessage("decrypted", proofCode, viewerAddress, secretAccessCode, 404,
                   MsgProofNotFound, <<"getCVProofByCode">>)
  ELSE LET proof == proofs[proofCode]
           result == getDecryptionKey(objects, proof.sealObjectId, viewerAddress,
                                      secretAccessCode)
           encryptedBuffer == retrieveFromWalrus(blobs, proof.contentId, mock)
       IN IF result.threw
          THEN [SealResponse("decrypted", proofCode, proof.sealObjectId, viewerAddress,
                             secretAccessCode, result,
                             <<"getCVProofByCode", "getDecryptionKey">>)
                  EXCEPT !.status = DecryptedCatchStatus(result.message)]
          ELSE IF ~encryptedBuffer.def
          THEN JsonMessage("decrypted", proofCode, viewerAddress, secretAccessCode, 404,
                           MsgBlobNotFound,
                           <<"getCVProofByCode", "getDecryptionKey", "retrieveFromWalrus">>)
          ELSE AccessThenDecrypt("decrypted", proofCode, proof, encryptedBuffer.val,
                                 viewerAddress, secretAccessCode, objects,
                                 <<"getCVProofByCode", "retrieveFromWalrus">>, FALSE)

DecryptedResponse(proofs, objects, blobs, proofCode, viewerAddress, secretAccessCode, mock) ==
  IF proofCode \notin DOMAIN proofs
  THEN JsonMessage("decrypted", proofCode, viewerAddress, secretAccessCode, 404,
                   MsgProofNotFound, <<"getCVProofByCode">>)
  ELSE LET proof == proofs[proofCode]
           encryptedBuffer == retrieveFromWalrus(blobs, proof.contentId, mock)
       IN IF ~encryptedBuffer.def
          THEN JsonMessage("decrypted", proofCode, viewerAddress, secretAccessCode, 404,
                           MsgBlobNotFound, <<"getCVProofByCode", "retrieveFromWalrus">>)
          ELSE AccessThenDecrypt("decrypted", proofCode, proof, encryptedBuffer.val,
                                 viewerAddress, secretAccessCode, objects,
                                 <<"getCVProofByCode", "retrieveFromWalrus">>, FALSE)

Decrypted(proofCode, viewerAddress, secretAccessCode, mock) ==
  /\ Idle
  /\ resp' = DecryptedResponse(cvProofs, sealObjects, blobStore, proofCode,
                               viewerAddress, secretAccessCode, mock)
  /\ UNCHANGED <<inflight, routes, sealObjects, cvProofs, blobStore, requests>>

----------------------------------------------------------------------------
(* POST /api/proof/:proofCode/decrypt-owner (later revision only) *)

MsgMissingFields == <<"Missing required fields: walletAddress, nonce, signature">>

MsgBadSignature == <<"Invalid signature or expired challenge">>

MsgNotOwner == <<"You do not own this CV proof">>

\* a variant of the route without the comparison of the wallet with the owner
DecryptOwnerResponseAnyWallet(proofs, objects, blobs, proofCode, walletAddress, isValid, mock) ==
  IF ~Truthy(walletAddress)
  THEN JsonMessage("decryptOwner", proofCode, walletAddress, Undefined, 400,
                   MsgMissingFields, <<>>)
  ELSE IF ~isValid
  THEN JsonMessage("decryptOwner", proofCode, walletAddress, Undefined, 401,
                   MsgBadSignature, <<"verifySignature">>)
  ELSE IF proofCode \notin DOMAIN proofs
  THEN JsonMessage("decryptOwner", proofCode, walletAddress, Undefined, 404,
                   MsgProofNotFound, <<"verifySignature", "getCVProofByCode">>)
  ELSE LET proof == proofs[proofCode]
           encryptedBuffer == retrieveFromWalrus(blobs, proof.contentId, mock)
           steps == <<"verifySignature", "getCVProofByCode", "retrieveFromWalrus">>
       IN IF ~encryptedBuffer.def
          THEN JsonMessage("decryptOwner", proofCode, walletAddress, Undefined, 404,
                           MsgBlobNotFound, steps)
          ELSE AccessThenDecrypt("decryptOwner", proofCode, proof, encryptedBuffer.val,
                                 walletAddress, Undefined, objects, steps, TRUE)

\* isValid is what verifySignature(nonce, walletAddress, signature) answered
DecryptOwnerResponse(proofs, objects, blobs, proofCode, walletAddress, isValid, mock) ==
  IF ~Truthy(walletAddress)
  THEN JsonMessage("decryptOwner", proofCode, walletAddress, Undefined, 400,
                   MsgMissingFields, <<>>)
  ELSE IF ~isValid
  THEN JsonMessage("decryptOwner", proofCode, walletAddress, Undefined, 401,
                   MsgBadSignature, <<"verifySignature">>)
  ELSE IF proofCode \notin DOMAIN proofs
  THEN JsonMessage("decryptOwner", proofCode, walletAddress, Undefined, 404,
                   MsgProofNotFound, <<"verifySignature", "getCVProofByCode">>)
  ELSE IF toLowerCase(proofs[proofCode].walletAddress) # toLowerCase(walletAddress.val)
  THEN JsonMessage("decryptOwner", proofCode, walletAddress, Undefined, 403,
                   MsgNotOwner, <<"verifySignature", "getCVProofByCode">>)
  ELSE LET proof == proofs[proofCode]
           encryptedBuffer == retrieveFromWalrus(blobs, proof.contentId, mock)
           steps == <<"verifySignature", "getCVProofByCode", "retrieveFromWalrus">>
       IN IF ~encryptedBuffer.def
          THEN JsonMessage("decryptOwner", proofCode, walletAddress, Undefined, 404,
                           MsgBlobNotFound, steps)
          ELSE AccessThenDecrypt("decryptOwner", proofCode, proof, encryptedBuffer.val,
                                 walletAddress, Undefined, objects, steps, TRUE)

DecryptOwner(proofCode, walletAddress, isValid, mock) ==
  /\ Idle
  /\ routes = "part_006"
  /\ resp' = DecryptOwnerResponse(cvProofs, sealObjects, blobStore, proofCode,
                                  walletAddress, isValid, mock)
  /\ UNCHANGED <<inflight, routes, sealObjects, cvProofs, blobStore, requests>>

----------------------------------------------------------------------------
(* GET /api/proof/:proofCode, GET /api/proofs/wallet/:walletAddress,
   POST /api/proof/update-tx *)

GetProofResponse(proofs, proofCode) ==
  IF proofCode \notin DOMAIN proofs
  THEN JsonMessage("getProof", proofCode, Undefined, Undefined, 404,
                   MsgProofNotFound, <<"getCVProofByCode">>)
  ELSE JsonProofs("getProof", proofCode, 200, {proofs[proofCode]},
                  <<"getCVProofByCode">>)

GetProof(proofCode) ==
  /\ Idle
  /\ resp' = GetProofResponse(cvProofs, proofCode)
  /\ UNCHANGED <<inflight, routes, sealObjects, cvProofs, blobStore, requests>>

ProofsByWalletResponse(proofs, walletAddress) ==
  [JsonProofs("proofsByWallet", <<>>, 200, getCVProofsByWallet(proofs, walletAddress),
              <<"getCVProofsByWallet">>)
     EXCEPT !.viewerAddress = Def(walletAddress)]

ProofsByWallet(walletAddress) ==
  /\ Idle
  /\ resp' = ProofsByWalletResponse(cvProofs, walletAddress)
  /\ UNCHANGED <<inflight, routes, sealObjects, cvProofs, blobStore, requests>>

MsgUpdateFailed == <<"Failed to update proof">>

MsgUpdateRequired == <<"Proof code and transaction hash required">>

\* a variant of the route that rewrites the record instead of its txHash only
UpdateTxResponseRewriting(proofs, proofCode, txHash) ==
  IF proofCode = <<>> \/ txHash = <<>>
  THEN JsonMessage("updateTx", proofCode, Undefined, Undefined, 400,
                   MsgUpdateRequired, <<>>)
  ELSE IF proofCode \notin DOMAIN proofs
  THEN [JsonMessage("updateTx", proofCode, Undefined, Undefined, 404,
                    MsgUpdateFailed, <<"updateCVProofTxHash">>)
          EXCEPT !.txHash = txHash]
  ELSE [JsonProofs("updateTx", proofCode, 200,
                   {[proofs[proofCode] EXCEPT !.txHash = txHash,
                                              !.storageUrl = txHash]},
                   <<"updateCVProofTxHash">>)
          EXCEPT !.txHash = txHash, !.replaced = proofs[proofCode].txHash]

\* a variant of the route that keeps a transaction hash once it was confirmed
UpdateTxResponseKeepingFirst(proofs, proofCode, txHash) ==
  IF proofCode = <<>> \/ txHash = <<>>
  THEN JsonMessage("updateTx", proofCode, Undefined, Undefined, 400,
                   MsgUpdateRequired, <<>>)
  ELSE IF proofCode \notin DOMAIN proofs
  THEN [JsonMessage("updateTx", proofCode, Undefined, Undefined, 404,
                    MsgUpdateFailed, <<"updateCVProofTxHash">>)
          EXCEPT !.txHash = txHash]
  ELSE [JsonProofs("updateTx", proofCode, 200,
                   {IF proofs[proofCode].txHash \in TxInputs
                    THEN proofs[proofCode]
                    ELSE updateCVProofTxHash(proofs, proofCode, txHash)[proofCode]},
                   <<"updateCVProofTxHash">>)
          EXCEPT !.txHash = txHash, !.replaced = proofs[proofCode].txHash]

\* the response of the route; txHash is the hash of the request body and
\* replaced the hash the record held when the request arrived
UpdateTxResponse(proofs, proofCode, txHash) ==
  IF proofCode = <<>> \/ txHash = <<>>
  THEN JsonMessage("updateTx", proofCode, Undefined, Undefined, 400,
                   MsgUpdateRequired, <<>>)
  ELSE IF proofCode \notin DOMAIN proofs
  THEN [JsonMessage("updateTx", proofCode, Undefined, Undefined, 404,
                    MsgUpdateFailed, <<"updateCVProofTxHash">>)
          EXCEPT !.txHash = txHash]
  ELSE [JsonProofs("updateTx", proofCode, 200,
                   {updateCVProofTxHash(proofs, proofCode, txHash)[proofCode]},
                   <<"updateCVProofTxHash">>)
          EXCEPT !.txHash = txHash, !.replaced = proofs[proofCode].txHash]

\* the record the route answers with is the record the storage now holds
UpdateTx(proofCode, txHash) ==
  LET response == UpdateTxResponse(cvProofs, proofCode, txHash)
  IN /\ Idle
     /\ cvProofs' = IF response.status = 200
                    THEN [cvProofs EXCEPT ![proofCode] =
                            CHOOSE p \in response.proofs : TRUE]
                    ELSE cvProofs
     /\ resp' = response
     /\ UNCHANGED <<inflight, routes, sealObjects, blobStore, requests>>

----------------------------------------------------------------------------
(* The blob store is not trusted between a write and a read *)

Tamper(contentId, bytes) ==
  /\ Idle
  /\ contentId \in DOMAIN blobStore
  /\ blobStore[contentId] # bytes
  /\ blobStore' = [blobStore EXCEPT ![contentId] = bytes]
  /\ UNCHANGED <<inflight, routes, sealObjects, cvProofs, requests, resp>>

----------------------------------------------------------------------------
(* Specifications *)

EmptyMap == [x \in {} |-> x]

Init ==
  /\ routes \in RouteRevisions
  /\ sealObjects = EmptyMap
  /\ cvProofs = EmptyMap
  /\ blobStore = EmptyMap
  /\ requests = EmptyMap
  /\ inflight = EmptyMap
  /\ resp = NoResponse

RegisterAny ==
  \E walletAddress \in Owners, accessMode \in AccessModes,
     allowedViewers \in ViewerLists, secretAccessCode \in CodeInputs,
     doc \in Documents, seed \in Seeds :
    Register(walletAddress, accessMode, allowedViewers, secretAccessCode, doc, seed)

GetDecryptionKeyAny ==
  \E sealObjectId \in SealIds, viewerAddress \in ViewerParams,
     secretAccessCode \in CodeParams :
    GetDecryptionKey(sealObjectId, viewerAddress, secretAccessCode)

DecryptedAny ==
  \E proofCode \in ProofCodes, viewerAddress \in QueryViewerParams,
     secretAccessCode \in QueryCodeParams, mock \in BOOLEAN :
    Decrypted(proofCode, viewerAddress, secretAccessCode, mock)

DecryptOwnerAny ==
  \E proofCode \in ProofCodes, walletAddress \in ViewerParams,
     isValid \in BOOLEAN, mock \in BOOLEAN :
    DecryptOwner(proofCode, walletAddress, isValid, mock)

GetProofAny == \E proofCode \in ProofCodes : GetProof(proofCode)

ProofsByWalletAny == \E walletAddress \in Requesters : ProofsByWallet(walletAddress)

UpdateTxAny ==
  \E proofCode \in ProofCodes \cup {<<>>}, txHash \in TxInputs \cup {<<>>} :
    UpdateTx(proofCode, txHash)

TamperAny ==
  \E contentId \in DOMAIN blobStore, bytes \in TamperedBlobs : Tamper(contentId, bytes)

\* the seal service under registrations and access requests
NextSeal == RegisterAny \/ GetDecryptionKeyAny \/ Respond

SpecSeal == Init /\ [][NextSeal]_vars

\* the retrieval routes over an untrusted blob store
NextRetrieve == RegisterAny \/ TamperAny \/ DecryptedAny \/ DecryptOwnerAny \/ Respond

SpecRetrieve == Init /\ [][NextRetrieve]_vars

\* the proof-record routes
NextProofs == RegisterAny \/ GetProofAny \/ ProofsByWalletAny \/ UpdateTxAny \/ Respond

SpecProofs == Init /\ [][NextProofs]_vars

\* every way a key can leave the seal service
NextKeys ==
  RegisterAny \/ GetDecryptionKeyAny \/ DecryptedAny \/ GetProofAny \/ Respond

SpecKeys == Init /\ [][NextKeys]_vars

EncryptCVAny ==
  \E pdfBytes \in {<<>>} \cup Documents, ownerAddress \in Owners, seed \in Seeds :
    EncryptCV(pdfBytes, ownerAddress, seed)

\* a buffer encryptCV returns, as returned or with one bit flipped
Buffers(pdfBytes, seed) ==
  LET output == Ciphertext(pdfBytes, seed)
  IN {output} \cup
     {FlipBit(output, position, bit) : position \in 1..Len(output), bit \in FlippedBits}

\* keys other than the key of the seed: the key of another draw, and the key
\* with one bit of one byte flipped
WrongKeys(seed) ==
  {EncryptionKey(other) : other \in Seeds \ {seed}} \cup
  {toHex(FlipBit(fromHex(EncryptionKey(seed)), position, 0)) : position \in KeyPositions}

\* The tag of the model is a checksum: it changes with any one change of the
\* buffer or of the key, so decryptCV is given one change at a time.
DecryptCVAny ==
  \E pdfBytes \in Plaintexts, seed \in Seeds :
    \/ \E ciphertext \in Buffers(pdfBytes, seed) :
         DecryptCV(ciphertext, EncryptionKey(seed))
    \/ \E decryptKey \in WrongKeys(seed) :
         DecryptCV(Ciphertext(pdfBytes, seed), decryptKey)

\* the cipher under every buffer and key
NextCipher == EncryptCVAny \/ DecryptCVAny \/ Respond

SpecCipher == Init /\ [][NextCipher]_vars

\* the requests of the specification that interleaves the handlers
InterleavedModes == {"owner_only", "secret_code"}

InterleavedSealIds == {SealId(n) : n \in 0..MaxInterleaved}

InterleavedProofCodes == {ProofCode(n) : n \in 0..MaxInterleaved}

\* two registrants, each with a document of their own; the n-th registration
\* draws the n-th random bytes, so the keys, IVs and generated codes of two
\* registrations differ
InterleavedOwners == {WalletOwner, WalletSecondOwner}

SecondDocument == <<37, 80, 68, 70, 45>>

DocumentOf(walletAddress) ==
  IF walletAddress = WalletOwner
  THEN CHOOSE doc \in Documents : TRUE
  ELSE SecondDocument

RegisterBeginAny ==
  \E walletAddress \in InterleavedOwners, accessMode \in InterleavedModes :
    RegisterBegin(walletAddress, accessMode, Undefined, Undefined,
                  DocumentOf(walletAddress), Cardinality(DOMAIN sealObjects) + 1)

RegisterUploadAny ==
  \E sealObjectId \in DOMAIN inflight, ok \in BOOLEAN : RegisterUpload(sealObjectId, ok)

RegisterAnchorAny ==
  \E sealObjectId \in DOMAIN inflight, ok \in BOOLEAN : RegisterAnchor(sealObjectId, ok)

RegisterPersistAny ==
  \E sealObjectId \in DOMAIN inflight, ok \in BOOLEAN : RegisterPersist(sealObjectId, ok)

AccessInterleaved ==
  \E sealObjectId \in InterleavedSealIds,
     viewerAddress \in {Undefined, Def(WalletOwnerLower), Def(WalletStranger)},
     secretAccessCode \in {Undefined, Def(toHex(randomBytes(8, 1)))} :
    GetDecryptionKey(sealObjectId, viewerAddress, secretAccessCode)

RetrieveInterleaved ==
  \E proofCode \in InterleavedProofCodes, viewerAddress \in {Def(WalletOwner)},
     mock \in BOOLEAN :
    Decrypted(proofCode, viewerAddress, Undefined, mock)

GetProofInterleaved == \E proofCode \in InterleavedProofCodes : GetProof(proofCode)

UpdateTxInterleaved ==
  \E proofCode \in InterleavedProofCodes, txHash \in TxInputs : UpdateTx(proofCode, txHash)

\* registrations step by step, with the access requests served meanwhile
NextRegistration ==
  \/ RegisterBeginAny
  \/ RegisterUploadAny
  \/ RegisterAnchorAny
  \/ RegisterPersistAny
  \/ AccessInterleaved
  \/ Respond

SpecRegistration == Init /\ [][NextRegistration]_vars

\* the proof records under registrations, retrievals, lookups and updates
NextRecords ==
  \/ RegisterBeginAny
  \/ RegisterUploadAny
  \/ RegisterAnchorAny
  \/ RegisterPersistAny
  \/ RetrieveInterleaved
  \/ GetProofInterleaved
  \/ UpdateTxInterleaved
  \/ Respond

SpecRecords == Init /\ [][NextRecords]_vars

\* registrations in the two modes that need no further input
RegisterPlainAny ==
  \E walletAddress \in Owners, accessMode \in InterleavedModes,
     doc \in Documents, seed \in Seeds :
    Register(walletAddress, accessMode, Undefined, Undefined, doc, seed)

\* the two retrieval routes, every credential, over an untrusted blob store
NextFetch == RegisterPlainAny \/ TamperAny \/ DecryptedAny \/ DecryptOwnerAny \/ Respond

SpecFetch == Init /\ [][NextFetch]_vars

\* request bodies of a registration, well formed and not
FileInputs == {Undefined} \cup {Def(doc) : doc \in Documents}

WalletInputs == {Undefined, Def(<<>>), Def(WalletStranger), Def(WalletOwner)}

ModeInputs == AccessModes \cup {"public"}

ViewerInputs ==
  {ViewersAbsent, ViewersUnparsable, ViewersScalar, ViewersList(<<WalletViewer>>)}

RegisterRequestAny ==
  \E file \in FileInputs, walletAddress \in WalletInputs, accessMode \in ModeInputs,
     rawViewers \in ViewerInputs, secretAccessCode \in CodeInputs, seed \in Seeds :
    RegisterRequest(file, walletAddress, accessMode, rawViewers, secretAccessCode, seed)

\* registrations as they arrive, and what is stored afterwards
NextValidation == RegisterRequestAny \/ GetProofAny \/ Respond

SpecValidation == Init /\ [][NextValidation]_vars

Next ==
  \/ RegisterAny
  \/ GetDecryptionKeyAny
  \/ DecryptedAny
  \/ DecryptOwnerAny
  \/ GetProofAny
  \/ ProofsByWalletAny
  \/ UpdateTxAny
  \/ TamperAny
  \/ Respond

Spec == Init /\ [][Next]_vars

----------------------------------------------------------------------------
(* Vocabulary of the properties *)

\* the last call was sealService.getDecryptionKey on an object of the store
AccessOnObject ==
  /\ resp.op = "getDecryptionKey"
  /\ resp.object.val \in DOMAIN sealObjects

\* the access mode named by the registration that made the object
ModeOf(sealObjectId) == requests[sealObjectId].accessMode

\* only a requester identity was presented
IdentityOnly == Truthy(resp.viewerAddress) /\ ~resp.secretAccessCode.def

SameIdentity(a, b) == toLowerCase(a) = toLowerCase(b)

RequesterIsOwner ==
  SameIdentity(resp.viewerAddress.val, sealObjects[resp.object.val].ownerAddress)

\* the requester is in the viewer list of the registration request
RequesterInViewerList ==
  LET viewers == requests[resp.object.val].allowedViewers
  IN /\ viewers.def
     /\ \E i \in 1..Len(viewers.val) : SameIdentity(viewers.val[i], resp.viewerAddress.val)

StoredCode(sealObjectId) == sealObjects[sealObjectId].policy.secretAccessCode

HexChars == {HexDigits[i] : i \in 1..16}

----------------------------------------------------------------------------
(* C1..C5: access rules of the three modes *)

\* C1: on an object registered as owner_only, a request that presents only an
\* identity is granted exactly when the identity is the owner's.
C1_OwnerOnlyGrantsOwnerAlone ==
  (AccessOnObject /\ ModeOf(resp.object.val) = "owner_only" /\ IdentityOnly)
    => (resp.approved <=> RequesterIsOwner)

\* C2: on an object registered as specific_wallets with viewer list V, a request
\* that presents only an identity is granted exactly when the identity is the
\* owner's or a member of V (case-insensitively).
C2_SpecificWalletsGrantsListed ==
  (AccessOnObject /\ ModeOf(resp.object.val) = "specific_wallets" /\ IdentityOnly)
    => (resp.approved <=> (RequesterIsOwner \/ RequesterInViewerList))

\* C3: on an object registered as secret_code with stored code C, a request is
\* granted exactly when it presents a code equal to C.
C3_SecretCodeGrantsExactCode ==
  (AccessOnObject /\ ModeOf(resp.object.val) = "secret_code")
    => (resp.approved <=>
          (resp.secretAccessCode.def
             /\ resp.secretAccessCode.val = StoredCode(resp.object.val).val))

\* C4: on a secret_code object, a request that carries both a code and an
\* identity is decided by the code alone.
C4_CodeDecidesWhenBothPresented ==
  (AccessOnObject /\ ModeOf(resp.object.val) = "secret_code"
     /\ resp.secretAccessCode.def /\ resp.viewerAddress.def)
    => (resp.approved <=>
          resp.secretAccessCode.val = StoredCode(resp.object.val).val)

\* C5: a request on an existing object with neither identity nor code fails
\* with a kind of its own, not the kind of a refusal by the policy.
C5_MissingCredentialIsItsOwnKind ==
  (AccessOnObject /\ ~resp.viewerAddress.def /\ ~resp.secretAccessCode.def)
    => /\ resp.threw
       /\ DecryptedCatchStatus(resp.message) # DecryptedCatchStatus(MsgWalletDenied)
       /\ DecryptedCatchStatus(resp.message) # DecryptedCatchStatus(MsgInvalidCode)

----------------------------------------------------------------------------
(* C6: an unknown object *)

\* an access request on an object id that is not in the store
AccessOnUnknownObject ==
  /\ resp.op = "getDecryptionKey"
  /\ resp.object.val \notin DOMAIN sealObjects

C6_UnknownObjectOutcome ==
  AccessOnUnknownObject
    => /\ resp.threw
       /\ ~resp.approved
       /\ ~resp.decryptKey.def
       /\ resp.message = MsgSealNotFound
       /\ ~Includes(resp.message, "Access denied")
       /\ DecryptedCatchStatus(resp.message) = 404

\* C6: an access request whose objectId is not in the store fails as not found
\* whatever credential it carries (never a grant, a denial or a missing
\* credential), and the store is as it was.
C6_UnknownObjectIsNotFound ==
  /\ []C6_UnknownObjectOutcome
  /\ [][resp'.op = "getDecryptionKey" => sealObjects' = sealObjects]_vars

\* reached: a registered store, and a request on an unknown id that carries
\* no credential at all
C6_Witness ==
  /\ AccessOnUnknownObject
  /\ DOMAIN sealObjects # {}
  /\ ~resp.viewerAddress.def
  /\ ~resp.secretAccessCode.def
  /\ resp.threw

----------------------------------------------------------------------------
(* C7: where the encryption key goes *)

ProofStrings(proof) ==
  {proof.walletAddress, proof.sealObjectId, proof.contentId, proof.txHash,
   proof.proofCode, proof.secretAccessCode.val}

\* no field of the proof record is the key of a seal object
CarriesNoKey(proof) ==
  \A o \in DOMAIN sealObjects : sealObjects[o].encryptionKey \notin ProofStrings(proof)

\* C7: a key leaves the seal service only as the result of a granted access
\* request on the object it belongs to; the result of encryptCV, the response
\* of a registration, the persisted proof records and the refused or failed
\* requests carry none.
C7_KeyOnlyByGrantedAccess ==
  /\ resp.decryptKey.def
       => /\ Includes(resp.steps, "getDecryptionKey")
          /\ resp.approved
          /\ ~resp.threw \/ Includes(resp.steps, "decryptCV")
          /\ resp.object.val \in DOMAIN sealObjects
          /\ resp.decryptKey.val = sealObjects[resp.object.val].encryptionKey
  /\ (resp.op = "register" \/ ~resp.approved) => ~resp.decryptKey.def
  /\ \A p \in resp.proofs : CarriesNoKey(p)
  /\ \A c \in DOMAIN cvProofs : CarriesNoKey(cvProofs[c])

\* reached: a granted request that was handed the key of its object, next to
\* the record of the registration that made the object
C7_Witness ==
  /\ resp.op = "getDecryptionKey"
  /\ resp.approved
  /\ resp.decryptKey.def
  /\ \E c \in DOMAIN cvProofs : cvProofs[c].sealObjectId = resp.object.val

----------------------------------------------------------------------------
(* C8: the ciphertext hash is compared before the cipher runs *)

IsRetrieval == resp.op \in {"decrypted", "decryptOwner"}

\* the last call was a retrieval that fetched bytes whose digest is not the
\* ciphertextHash of the proof record
FetchedTamperedBytes ==
  /\ IsRetrieval
  /\ Includes(resp.steps, "retrieveFromWalrus")
  /\ resp.message # MsgBlobNotFound
  /\ computeCiphertextHash(blobStore[cvProofs[resp.target].contentId])
       # cvProofs[resp.target].ciphertextHash

IntegrityFailure ==
  resp.status = 400 /\ Includes(resp.message, "CV integrity check failed")

DecryptInvoked == Includes(resp.steps, "decryptCV")

----------------------------------------------------------------------------
(* C9, C10: the secret access code *)

\* the registration that made the proof's seal object asked for secret_code
IsSecretCodeProof(proof) ==
  /\ proof.sealObjectId \in DOMAIN requests
  /\ ModeOf(proof.sealObjectId) = "secret_code"

\* C9: after the registration, no response of another operation contains the
\* secret access code of a secret_code registration.
C9_CodeOnlyInRegistrationResponse ==
  resp.op # "register"
    => \A p \in resp.proofs : IsSecretCodeProof(p) => ~p.secretAccessCode.def

\* the registration asked for secret_code and supplied no code
CodeWasGenerated(sealObjectId) ==
  /\ ModeOf(sealObjectId) = "secret_code"
  /\ ~Truthy(requests[sealObjectId].secretAccessCode)

IsHex16(code) == Len(code) = 16 /\ \A i \in 1..Len(code) : code[i] \in HexChars

\* the proof record a registration persisted and returned for a seal object
ProofsOf(sealObjectId) ==
  {cvProofs[c] : c \in {d \in DOMAIN cvProofs : cvProofs[d].sealObjectId = sealObjectId}}

\* C10: a secret_code registration without a code generates 16 hexadecimal
\* characters, returns them in its response and stores them as the policy's
\* code, and an access request that presents exactly the returned code is
\* granted.
C10_GeneratedCodeRoundTrip ==
  \A o \in DOMAIN sealObjects :
    CodeWasGenerated(o)
      => /\ StoredCode(o).def
         /\ IsHex16(StoredCode(o).val)
         /\ ProofsOf(o) # {}
         /\ \A p \in ProofsOf(o) : p.secretAccessCode = StoredCode(o)
         /\ (resp.op = "register" /\ resp.object.val = o)
              => (resp.status = 201
                    /\ \E p \in resp.proofs : p.secretAccessCode = StoredCode(o))
         /\ (resp.op = "getDecryptionKey" /\ resp.object.val = o
               /\ \E p \in ProofsOf(o) : resp.secretAccessCode = p.secretAccessCode)
              => (resp.approved
                    /\ resp.decryptKey = Def(sealObjects[o].encryptionKey))

\* reached: the returned code, presented alone, was granted
C10_Witness ==
  /\ AccessOnObject
  /\ CodeWasGenerated(resp.object.val)
  /\ ~resp.viewerAddress.def
  /\ \E p \in ProofsOf(resp.object.val) : resp.secretAccessCode = p.secretAccessCode
  /\ resp.approved

----------------------------------------------------------------------------
(* C11: end to end, owner_only *)

\* the last call was GET /api/proof/:proofCode/decrypted on a stored proof
RetrievalOfProof ==
  /\ resp.op = "decrypted"
  /\ resp.target \in DOMAIN cvProofs

\* the blob store still holds the bytes the registration uploaded
BlobUntouched(proof) ==
  /\ proof.contentId \in DOMAIN blobStore
  /\ computeCiphertextHash(blobStore[proof.contentId]) = proof.ciphertextHash

\* C11: after an owner_only registration of document D by owner O, with the
\* stored blob untouched, a retrieval that presents O succeeds and returns
\* exactly D, and a retrieval that presents another identity is refused.
C11_OwnerOnlyEndToEnd ==
  LET proof == cvProofs[resp.target]
      request == requests[proof.sealObjectId]
  IN (RetrievalOfProof /\ request.accessMode = "owner_only"
        /\ BlobUntouched(proof) /\ IdentityOnly)
       => IF SameIdentity(resp.viewerAddress.val, request.walletAddress)
          THEN resp.status = 200 /\ resp.body = Def(request.doc)
          ELSE /\ resp.status = 403
               /\ Includes(resp.message, "Access denied")
               /\ ~resp.body.def

----------------------------------------------------------------------------
(* C12, C13: the anchor update *)

\* a step of POST /api/proof/update-tx whose body has both fields
AnchorUpdateStep == resp'.op = "updateTx" /\ resp'.status # 400

\* C12: an anchor update on a known proofCode replaces the txHash of that
\* record and nothing else: its other fields, the other records, the seal
\* objects and the blobs are as before. On an unknown proofCode it answers
\* not found and no record is created or changed.
C12_AnchorUpdateReplacesOnlyTxHash ==
  [][AnchorUpdateStep =>
       /\ sealObjects' = sealObjects
       /\ blobStore' = blobStore
       /\ DOMAIN cvProofs' = DOMAIN cvProofs
       /\ \A c \in DOMAIN cvProofs \ {resp'.target} : cvProofs'[c] = cvProofs[c]
       /\ IF resp'.target \in DOMAIN cvProofs
          THEN /\ resp'.status = 200
               /\ cvProofs'[resp'.target] =
                    [cvProofs[resp'.target] EXCEPT !.txHash = resp'.txHash]
          ELSE /\ resp'.status = 404
               /\ cvProofs' = cvProofs]_vars

\* reached: an update that replaced the txHash of one record of two, the
\* record carrying a secret access code
C12_Witness ==
  /\ resp.op = "updateTx"
  /\ resp.status = 200
  /\ Cardinality(DOMAIN cvProofs) > 1
  /\ cvProofs[resp.target].txHash = resp.txHash
  /\ resp.replaced # resp.txHash
  /\ cvProofs[resp.target].secretAccessCode.def

\* C13: after an anchor update has been applied the record holds the txHash
\* that update supplied, whatever hash it held before; an update is never
\* refused because a confirmed hash is already there.
C13_LastAnchorUpdateWins ==
  (resp.op = "updateTx" /\ resp.status # 400 /\ resp.target \in DOMAIN cvProofs)
    => /\ resp.status = 200
       /\ cvProofs[resp.target].txHash = resp.txHash
       /\ \A p \in resp.proofs : p.txHash = resp.txHash

\* reached: an update that replaced a hash an earlier update had confirmed
C13_Witness ==
  /\ resp.op = "updateTx"
  /\ resp.status = 200
  /\ resp.replaced \in TxInputs
  /\ resp.replaced # resp.txHash
  /\ cvProofs[resp.target].txHash = resp.txHash

----------------------------------------------------------------------------
(* C14: proof records are written once *)

\* the fields a record is created with
CreatedFields(proof) ==
  <<proof.proofCode, proof.walletAddress, proof.fileHash, proof.ciphertextHash,
    proof.sealObjectId, proof.contentId>>

\* every record is stored under its own proofCode and describes the
\* registration that made its seal object
RecordsAsCreated ==
  \A c \in DOMAIN cvProofs :
    /\ cvProofs[c].proofCode = c
    /\ cvProofs[c].sealObjectId \in DOMAIN requests
    /\ cvProofs[c].walletAddress = requests[cvProofs[c].sealObjectId].walletAddress
    /\ cvProofs[c].fileHash = sha256(requests[cvProofs[c].sealObjectId].doc)
    /\ BlobUntouched(cvProofs[c])
    /\ \A d \in DOMAIN cvProofs :
         (cvProofs[d].sealObjectId = cvProofs[c].sealObjectId
            \/ cvProofs[d].contentId = cvProofs[c].contentId) => d = c

\* C14: whatever is served, a stored record keeps the proofCode, owner, file
\* hash, ciphertext hash, sealObjectId and contentId it was created with; a
\* registration persists its record under a proofCode no record had, and
\* replaces or alters none.
C14_ProofRecordsWrittenOnce ==
  /\ []RecordsAsCreated
  /\ [][/\ \A c \in DOMAIN cvProofs :
             /\ c \in DOMAIN cvProofs'
             /\ CreatedFields(cvProofs'[c]) = CreatedFields(cvProofs[c])
        /\ (resp'.op = "register" /\ resp'.status = 201)
             => /\ resp'.target \notin DOMAIN cvProofs
                /\ DOMAIN cvProofs' = DOMAIN cvProofs \cup {resp'.target}
                /\ \A c \in DOMAIN cvProofs : cvProofs'[c] = cvProofs[c]
        /\ resp'.op # "register" => DOMAIN cvProofs' = DOMAIN cvProofs]_vars

\* reached: a second registration has persisted its record next to a record
\* whose txHash an anchor update had replaced
C14_Witness ==
  /\ resp.op = "register"
  /\ resp.status = 201
  /\ Cardinality(DOMAIN cvProofs) = 2
  /\ \E c \in DOMAIN cvProofs \ {resp.target} : cvProofs[c].txHash \in TxInputs

----------------------------------------------------------------------------
(* C15: a registration that fails half way *)

\* a step in which a registration answers with a failure
RegistrationFails == resp'.op = "register" /\ resp'.threw

\* C15: when the upload, the anchoring call or the storage call of a
\* registration fails, the caller gets the failure (500 with its message), no
\* proof record of that registration is persisted then or later, and what the
\* earlier steps did stays: the seal object, and the blob once uploaded.
C15_FailedRegistrationLeavesItsEffects ==
  /\ [][RegistrationFails =>
          /\ resp'.status = 500
          /\ resp'.message = MsgStepFailed(resp'.steps[Len(resp'.steps)])
          /\ resp'.proofs = {}
          /\ cvProofs' = cvProofs
          /\ sealObjects' = sealObjects
          /\ blobStore' = blobStore
          /\ resp'.object.val \in DOMAIN sealObjects'
          /\ resp'.object.val \in DOMAIN inflight
          /\ resp'.object.val \notin DOMAIN inflight'
          /\ Includes(resp'.steps, "registerCVProofOnSui")
               => /\ ContentId(inflight[resp'.object.val].n) \in DOMAIN blobStore'
                  /\ blobStore'[ContentId(inflight[resp'.object.val].n)]
                       = inflight[resp'.object.val].ciphertext]_vars
  /\ [][\A o \in DOMAIN sealObjects :
          (o \notin DOMAIN inflight /\ ProofsOf(o) = {})
            => /\ o \in DOMAIN sealObjects'
               /\ sealObjects'[o] = sealObjects[o]
               /\ \A c \in DOMAIN cvProofs' : cvProofs'[c].sealObjectId # o]_vars

\* reached: the storage call of a registration has failed; its seal object
\* and its blob are in place and no record names them
C15_Witness ==
  /\ resp.op = "register"
  /\ resp.threw
  /\ resp.status = 500
  /\ Includes(resp.steps, "createCVProof")
  /\ resp.object.val \in DOMAIN sealObjects
  /\ ProofsOf(resp.object.val) = {}
  /\ DOMAIN blobStore # {}

----------------------------------------------------------------------------
(* C18: the access evaluation reads only *)

\* C18: an access evaluation leaves the seal objects, the proof records and
\* the blobs as they were, and its outcome is the outcome of evaluating its
\* request on the store alone, whatever evaluations came before it.
C18_EvaluationReadsOnly ==
  /\ [](resp.op = "getDecryptionKey"
          => LET alone == getDecryptionKey(sealObjects, resp.target,
                                           resp.viewerAddress, resp.secretAccessCode)
             IN /\ resp.approved = alone.approved
                /\ resp.threw = alone.threw
                /\ resp.message = alone.message
                /\ resp.decryptKey = alone.decryptKey)
  /\ [][resp'.op = "getDecryptionKey"
          => /\ sealObjects' = sealObjects
             /\ cvProofs' = cvProofs
             /\ blobStore' = blobStore
             /\ inflight' = inflight]_vars

\* reached: a request refused for its secret code
C18_Witness ==
  /\ AccessOnObject
  /\ resp.threw
  /\ resp.message = MsgInvalidCode
  /\ StoredCode(resp.object.val).def

----------------------------------------------------------------------------
(* C19: a seal object is stored whole *)

Complete(sealObject) ==
  /\ sealObject.ownerAddress # <<>>
  /\ Len(sealObject.encryptionKey) = 2 * KEY_BYTES
  /\ sealObject.policy.allowedViewers.def

\* C19: while registrations wait at their awaits and access requests are
\* served, every object id of the store has its owner, its key and its
\* policy, and an access request that resolves an object id finds them: a
\* grant carries the 32-byte key of the object.
C19_SealObjectsStoredWhole ==
  /\ \A o \in DOMAIN sealObjects : Complete(sealObjects[o])
  /\ DOMAIN inflight \subseteq DOMAIN sealObjects
  /\ AccessOnObject
       => /\ resp.message # MsgSealNotFound
          /\ resp.approved
               => /\ resp.decryptKey = Def(sealObjects[resp.object.val].encryptionKey)
                  /\ Len(fromHex(resp.decryptKey.val)) = KEY_BYTES

\* reached: a grant on the object of a registration that is still waiting,
\* while a second registration waits too
C19_Witness ==
  /\ AccessOnObject
  /\ resp.approved
  /\ resp.object.val \in DOMAIN inflight
  /\ Cardinality(DOMAIN inflight) = 2

----------------------------------------------------------------------------
(* C16, C17: the cipher *)

\* the buffer is what encryptCV returns for the plaintext under the draws of
\* the seed, and the key is the key of those draws
SealedWith(ciphertext, decryptKey, pdfBytes, seed) ==
  ciphertext = Ciphertext(pdfBytes, seed) /\ decryptKey = EncryptionKey(seed)

\* C16: decryptCV, given a buffer that encryptCV returned for a plaintext and
\* the key encryptCV drew for it, returns exactly the plaintext; so for the
\* empty plaintext, and for each of the ivs that encryptCV draws.
C16_DecryptInvertsEncrypt ==
  resp.op = "decryptCV"
    => \A pdfBytes \in Plaintexts, seed \in Seeds :
         SealedWith(resp.ciphertext, resp.decryptKey.val, pdfBytes, seed)
           => (~resp.threw /\ resp.body = Def(pdfBytes))

\* reached: the empty plaintext came back from a buffer of iv and tag alone
C16_Witness ==
  /\ resp.op = "decryptCV"
  /\ \E seed \in Seeds : SealedWith(resp.ciphertext, resp.decryptKey.val, <<>>, seed)
  /\ Len(resp.ciphertext) = IV_LENGTH + AUTH_TAG_LENGTH
  /\ resp.body = Def(<<>>)

\* C17: decryptCV, given a buffer that is no output of encryptCV under the
\* given key (a bit of the iv, the body or the tag flipped, or another key),
\* throws and returns no bytes; the route maps that error to neither the
\* status of not found nor the status of access denied.
C17_TamperedOrWrongKeyFails ==
  (resp.op = "decryptCV"
     /\ ~\E pdfBytes \in Plaintexts, seed \in Seeds :
           SealedWith(resp.ciphertext, resp.decryptKey.val, pdfBytes, seed))
    => /\ resp.threw
       /\ ~resp.body.def
       /\ DecryptedCatchStatus(resp.message) \notin {403, 404}
       /\ DecryptedCatchStatus(resp.message) # DecryptedCatchStatus(MsgSealNotFound)
       /\ DecryptedCatchStatus(resp.message) # DecryptedCatchStatus(MsgWalletDenied)

\* reached: a buffer with a bit of its body flipped, under the right key
C17_Witness ==
  /\ resp.op = "decryptCV"
  /\ resp.threw
  /\ \E pdfBytes \in Plaintexts, seed \in Seeds, bit \in FlippedBits :
       /\ pdfBytes # <<>>
       /\ resp.decryptKey.val = EncryptionKey(seed)
       /\ resp.ciphertext = FlipBit(Ciphertext(pdfBytes, seed), IV_LENGTH + 1, bit)

----------------------------------------------------------------------------
(* C20: refusals and integrity failures stay apart *)

\* the retrieval fetched the bytes of a stored proof
RetrievalFetched ==
  /\ IsRetrieval
  /\ resp.target \in DOMAIN cvProofs
  /\ Includes(resp.steps, "retrieveFromWalrus")
  /\ resp.message # MsgBlobNotFound

\* the policy of the proof's seal object refuses what the request presented
RefusedByPolicy ==
  /\ resp.op = "decrypted"
  /\ RetrievalFetched
  /\ LET alone == getDecryptionKey(sealObjects, cvProofs[resp.target].sealObjectId,
                                   resp.viewerAddress, resp.secretAccessCode)
     IN alone.threw /\ Includes(alone.message, "Access denied")

\* the decrypt-owner route refuses a wallet that does not own the proof
RefusedAsNotOwner ==
  /\ resp.op = "decryptOwner"
  /\ resp.target \in DOMAIN cvProofs
  /\ Includes(resp.steps, "getCVProofByCode")
  /\ ~SameIdentity(cvProofs[resp.target].walletAddress, resp.viewerAddress.val)

\* C20: a retrieval that the policy refuses is answered 403 and never with
\* the answer of an integrity failure; a retrieval that is granted and whose
\* bytes fail the hash check is answered 400 with the integrity message and
\* never as an access denial; the error of the cipher maps to neither.
C20_RefusalAndIntegrityStayApart ==
  /\ (RefusedByPolicy \/ RefusedAsNotOwner)
       => /\ resp.status = 403
          /\ ~Includes(resp.message, "CV integrity check failed")
          /\ resp.message # MsgAuthFailed
          /\ ~resp.body.def
  /\ (FetchedTamperedBytes /\ ~RefusedByPolicy)
       => /\ IntegrityFailure
          /\ resp.status # 403
          /\ ~Includes(resp.message, "Access denied")
  /\ DecryptedCatchStatus(MsgAuthFailed) # 403
  /\ ~Includes(MsgAuthFailed, "Access denied")

\* reached: a retrieval of tampered bytes that the policy refused, answered
\* as a refusal
C20_Witness ==
  /\ RefusedByPolicy
  /\ FetchedTamperedBytes
  /\ Truthy(resp.viewerAddress)
  /\ resp.status = 403

----------------------------------------------------------------------------
(* C21: the policy store only grows *)

\* the step is a call of encryptCV: a handler has started to wait on its upload
EncryptionStep == DOMAIN inflight' \ DOMAIN inflight # {}

\* C21: a call of encryptCV adds exactly one seal object, under an id the
\* store did not hold, made from the owner and policy of its request; every
\* step leaves every object of the store in place with its owner, key and
\* policy, and no step but an encryption adds one.
C21_SealObjectsOnlyAdded ==
  [][/\ \A o \in DOMAIN sealObjects :
          /\ o \in DOMAIN sealObjects'
          /\ sealObjects'[o] = sealObjects[o]
     /\ EncryptionStep
          => \E o \in DOMAIN inflight' \ DOMAIN inflight :
               /\ o \notin DOMAIN sealObjects
               /\ DOMAIN sealObjects' = DOMAIN sealObjects \cup {o}
               /\ sealObjects'[o].ownerAddress = requests'[o].walletAddress
               /\ sealObjects'[o].policy =
                    RegisterPolicy(routes, requests'[o].accessMode,
                                   requests'[o].allowedViewers,
                                   inflight'[o].generatedSecretCode)
     /\ ~EncryptionStep => DOMAIN sealObjects' = DOMAIN sealObjects]_vars

\* reached: a second registrant's object is in the store and the first object
\* still answers an access request
C21_Witness ==
  /\ Cardinality(DOMAIN sealObjects) = 2
  /\ sealObjects[SealId(1)].ownerAddress # sealObjects[SealId(2)].ownerAddress
  /\ resp.op = "getDecryptionKey"
  /\ resp.object = Def(SealId(1))
  /\ resp.approved

----------------------------------------------------------------------------
(* C22: what is missing is reported before any credential is looked at *)

\* the answer of GET /decrypted on the stores of this state when the blob
\* store returns nothing for the content id
BlobAbsentAnswer(proofCode, viewerAddress, secretAccessCode) ==
  DecryptedResponse(cvProofs, sealObjects, blobStore, proofCode, viewerAddress,
                    secretAccessCode, TRUE)

NotFoundBefore(answer, message, step) ==
  /\ answer.status = 404
  /\ answer.message = message
  /\ ~Includes(answer.steps, step)
  /\ ~Includes(answer.steps, "getDecryptionKey")
  /\ answer.decryptKey = Undefined
  /\ answer.body = Undefined

\* C22: a retrieval for a proof code that has no proof record is answered 404
\* "Proof not found" with no blob fetched and no key requested; a retrieval
\* whose blob the store does not return is answered 404 "Encrypted CV not
\* found" with no key requested, whatever credential it presents.
C22_MissingIsNotFoundFirst ==
  /\ (IsRetrieval /\ Includes(resp.steps, "getCVProofByCode")
        /\ resp.target \notin DOMAIN cvProofs)
       => NotFoundBefore(resp, MsgProofNotFound, "retrieveFromWalrus")
  /\ (IsRetrieval /\ resp.message = MsgBlobNotFound)
       => NotFoundBefore(resp, MsgBlobNotFound, "computeCiphertextHash")
  /\ \A proofCode \in DOMAIN cvProofs, viewerAddress \in QueryViewerParams,
        secretAccessCode \in QueryCodeParams :
       NotFoundBefore(BlobAbsentAnswer(proofCode, viewerAddress, secretAccessCode),
                      MsgBlobNotFound, "computeCiphertextHash")

\* reached: a retrieval whose blob was not returned, presenting a credential
\* that the policy of the object refuses
C22_Witness ==
  /\ resp.op = "decrypted"
  /\ resp.target \in DOMAIN cvProofs
  /\ resp.message = MsgBlobNotFound
  /\ getDecryptionKey(sealObjects, cvProofs[resp.target].sealObjectId,
                      resp.viewerAddress, resp.secretAccessCode).threw

----------------------------------------------------------------------------
(* C23: the access evaluation comes before the integrity check *)

\* the position of a step among the steps the handler ran, 0 if it did not
StepAt(steps, step) ==
  IF Includes(steps, step)
  THEN CHOOSE i \in 1..Len(steps) : steps[i] = step
  ELSE 0

\* C23: a retrieval that fetched tampered bytes and presented a credential the
\* policy refuses (or none) ends as an access denial, 403, before any hash is
\* compared; an integrity failure is answered only after getDecryptionKey ran
\* and granted the request.
C23_AccessBeforeIntegrity ==
  /\ (FetchedTamperedBytes /\ RefusedByPolicy)
       => /\ resp.status = 403
          /\ Includes(resp.message, "Access denied")
          /\ ~IntegrityFailure
          /\ resp.steps[Len(resp.steps)] = "getDecryptionKey"
          /\ StepAt(resp.steps, "computeCiphertextHash") = 0
  /\ (IsRetrieval /\ IntegrityFailure)
       => /\ resp.approved
          /\ StepAt(resp.steps, "getDecryptionKey") > 0
          /\ StepAt(resp.steps, "getDecryptionKey")
               < StepAt(resp.steps, "computeCiphertextHash")
          /\ ~getDecryptionKey(sealObjects, cvProofs[resp.target].sealObjectId,
                               resp.viewerAddress, resp.secretAccessCode).threw

\* reached: tampered bytes fetched for a request that presents no credential
\* at all, answered 403
C23_Witness ==
  /\ FetchedTamperedBytes
  /\ RefusedByPolicy
  /\ ~resp.viewerAddress.def
  /\ ~resp.secretAccessCode.def
  /\ resp.status = 403

----------------------------------------------------------------------------
(* C24: concurrent registrations do not mix their values *)

\* the record combines the values of one registration: the key of its seal
\* object opens the blob at its content id and gives the document of the
\* request that made the seal object, and both hashes are of these
OwnRegistration(proof) ==
  /\ proof.sealObjectId \in DOMAIN sealObjects
  /\ proof.sealObjectId \in DOMAIN requests
  /\ proof.contentId \in DOMAIN blobStore
  /\ decryptCV(blobStore[proof.contentId],
               sealObjects[proof.sealObjectId].encryptionKey).decrypted
       = Def(requests[proof.sealObjectId].doc)
  /\ proof.ciphertextHash = computeCiphertextHash(blobStore[proof.contentId])
  /\ proof.fileHash = sha256(requests[proof.sealObjectId].doc)
  /\ proof.walletAddress = sealObjects[proof.sealObjectId].ownerAddress

\* C24: however the steps of two registrations interleave with each other and
\* with retrievals, lookups and anchor updates, the record a registration
\* persists combines the values of that registration only; and no step
\* changes what a record was created with, a seal object or a blob, so every
\* record stays such a combination. Only an anchor update changes a record,
\* and only the one it names.
C24_RegistrationsDoNotMix ==
  [][/\ (resp'.op = "register" /\ resp'.status = 201 /\ resp' # resp)
          => /\ DOMAIN cvProofs' = DOMAIN cvProofs \cup {resp'.target}
             /\ OwnRegistration(cvProofs'[resp'.target])
     /\ \A c \in DOMAIN cvProofs :
          /\ c \in DOMAIN cvProofs'
          /\ CreatedFields(cvProofs'[c]) = CreatedFields(cvProofs[c])
          /\ cvProofs'[c] # cvProofs[c]
               => resp'.op = "updateTx" /\ resp'.target = c
     /\ \A o \in DOMAIN sealObjects :
          o \in DOMAIN sealObjects' /\ sealObjects'[o] = sealObjects[o]
     /\ \A o \in DOMAIN requests :
          o \in DOMAIN requests' /\ requests'[o] = requests[o]
     /\ \A b \in DOMAIN blobStore :
          b \in DOMAIN blobStore' /\ blobStore'[b] = blobStore[b]]_vars

\* reached: the registration that began second has persisted its record while
\* the first, of another registrant and document, still waits at its last step
C24_Witness ==
  /\ resp.op = "register"
  /\ resp.status = 201
  /\ resp.object = Def(SealId(2))
  /\ SealId(1) \in DOMAIN inflight
  /\ inflight[SealId(1)].pc = "createCVProof"
  /\ requests[SealId(1)].doc # requests[SealId(2)].doc
  /\ requests[SealId(1)].walletAddress # requests[SealId(2)].walletAddress

----------------------------------------------------------------------------
(* C25: malformed registrations are rejected before step 1 *)

\* the request is malformed in one of the ways the claim lists
Malformed(file, walletAddress, accessMode, rawViewers) ==
  \/ ~file.def
  \/ ~walletAddress.def
  \/ Len(walletAddress.val) < MinWalletLength
  \/ accessMode \notin SchemaModes \cup {"undefined"}
  \/ rawViewers.kind \in {"unparsable", "scalar"}

\* C25: every registration request without a document, with an owner address
\* that is missing, empty or shorter than ten characters, with an access mode
\* outside the three modes, or with a viewer list that is not a list, is
\* answered 400; and a registration answered 400 ran no step: the seal
\* objects, the blobs and the proof records are as they were.
C25_MalformedRejectedBeforeAnyStep ==
  /\ [](\A file \in FileInputs, walletAddress \in WalletInputs,
           accessMode \in ModeInputs, rawViewers \in ViewerInputs :
          Malformed(file, walletAddress, accessMode, rawViewers)
            <=> RegisterRejection(file, walletAddress, accessMode, rawViewers) # <<>>)
  /\ [][(resp'.op = "register" /\ resp' # resp /\ resp'.status # 201)
          => /\ resp'.status = 400
             /\ resp'.steps = <<>>
             /\ resp'.proofs = {}
             /\ sealObjects' = sealObjects
             /\ blobStore' = blobStore
             /\ cvProofs' = cvProofs]_vars
  /\ [][(resp'.op = "register" /\ resp'.status = 201)
          => ~Malformed(Def(requests'[resp'.object.val].doc),
                        Def(requests'[resp'.object.val].walletAddress),
                        requests'[resp'.object.val].accessMode,
                        ViewersAbsent)]_vars

\* reached: after a registration that was stored, a request with too short an
\* owner address has been answered "Validation failed"
C25_Witness ==
  /\ resp.op = "register"
  /\ resp.status = 400
  /\ resp.message = MsgValidation
  /\ resp.viewerAddress = Def(WalletStranger)
  /\ Cardinality(DOMAIN cvProofs) = 1

----------------------------------------------------------------------------
(* C26: the owner's retrieval checks signature, record and owner in order *)

\* the answer of the decrypt-owner route on the stores of this state
OwnerAnswer(proofCode, walletAddress, isValid, mock) ==
  DecryptOwnerResponse(cvProofs, sealObjects, blobStore, proofCode, walletAddress,
                       isValid, mock)

\* the handler stopped after the steps given: nothing was fetched, no key was
\* requested, nothing is returned
StoppedAfter(answer, steps) ==
  /\ answer.steps = steps
  /\ answer.body = Undefined
  /\ answer.decryptKey = Undefined

\* C26: a request whose signature does not verify is answered 401 with only
\* the verification done; a verified wallet that is not the owner of the
\* record is answered 403 with only the verification and the record lookup
\* done; and plaintext is returned only after the verification and the
\* lookup, for a record that exists and whose owner is the signing wallet,
\* letter case aside.
C26_OwnerDecryptChecksInOrder ==
  /\ \A proofCode \in ProofCodes, walletAddress \in ViewerParams, mock \in BOOLEAN :
       /\ Truthy(walletAddress)
            => LET answer == OwnerAnswer(proofCode, walletAddress, FALSE, mock)
               IN answer.status = 401 /\ StoppedAfter(answer, <<"verifySignature">>)
       /\ (/\ Truthy(walletAddress)
           /\ proofCode \in DOMAIN cvProofs
           /\ ~SameIdentity(cvProofs[proofCode].walletAddress, walletAddress.val))
            => LET answer == OwnerAnswer(proofCode, walletAddress, TRUE, mock)
               IN /\ answer.status = 403
                  /\ StoppedAfter(answer, <<"verifySignature", "getCVProofByCode">>)
  /\ (resp.op = "decryptOwner" /\ resp.body.def)
       => /\ resp.status = 200
          /\ SubSeq(resp.steps, 1, 2) = <<"verifySignature", "getCVProofByCode">>
          /\ resp.target \in DOMAIN cvProofs
          /\ SameIdentity(cvProofs[resp.target].walletAddress, resp.viewerAddress.val)
          /\ resp.body = Def(requests[cvProofs[resp.target].sealObjectId].doc)

\* reached: the owner, signing with the address in another letter case, got
\* the document
C26_Witness ==
  /\ resp.op = "decryptOwner"
  /\ resp.body.def
  /\ resp.viewerAddress = Def(WalletOwnerLower)

----------------------------------------------------------------------------
(* C27: the modes are exclusive *)

\* only a secret code was presented
CodeOnly == Truthy(resp.secretAccessCode) /\ ~Truthy(resp.viewerAddress)

\* C27: on an object registered as owner_only or specific_wallets, a request
\* that presents only a secret code is never granted, also when the
\* registration supplied a code; on an object registered in a mode other than
\* specific_wallets, a requester who is not the owner and presents only an
\* identity is never granted, also when the registration supplied a viewer
\* list that names the requester.
C27_ModesExclusiveInEffect ==
  /\ (AccessOnObject /\ CodeOnly
        /\ ModeOf(resp.object.val) \in {"owner_only", "specific_wallets"})
       => ~resp.approved
  /\ (AccessOnObject /\ IdentityOnly
        /\ ModeOf(resp.object.val) \in {"owner_only", "secret_code"}
        /\ RequesterInViewerList /\ ~RequesterIsOwner)
       => ~resp.approved

----------------------------------------------------------------------------
(* C29: the default mode *)

\* C29: on an object whose registration named no access mode, a request that
\* presents only an identity is granted exactly when the identity is the
\* owner's, as on an object registered as owner_only.
C29_DefaultModeIsOwnerOnly ==
  (AccessOnObject /\ ModeOf(resp.object.val) = "undefined" /\ IdentityOnly)
    => (resp.approved <=> RequesterIsOwner)

----------------------------------------------------------------------------
(* C28: a proof record and its seal object *)

\* C28: the sealObjectId of every persisted proof record is the id of a seal
\* object of the store whose owner is the owner address of the record, and no
\* two records name the same seal object.
C28_RecordNamesItsOwnSealObject ==
  \A c \in DOMAIN cvProofs :
    /\ cvProofs[c].sealObjectId \in DOMAIN sealObjects
    /\ sealObjects[cvProofs[c].sealObjectId].ownerAddress = cvProofs[c].walletAddress
    /\ \A d \in DOMAIN cvProofs \ {c} :
         cvProofs[d].sealObjectId # cvProofs[c].sealObjectId

\* reached: the records of two registrants are stored and an anchor update of
\* one of them has been answered
C28_Witness ==
  /\ Cardinality(DOMAIN cvProofs) = 2
  /\ \E c, d \in DOMAIN cvProofs : cvProofs[c].walletAddress # cvProofs[d].walletAddress
  /\ resp.op = "updateTx"
  /\ resp.status = 200

----------------------------------------------------------------------------
(* C30: the hashes of a record and the integrity check *)

\* the bytes the registration of the record handed to the blob store: the
\* output of encryptCV for its document under the draw that gave its key
UploadedBytes(proof) ==
  Ciphertext(requests[proof.sealObjectId].doc,
             CHOOSE seed \in Seeds :
               EncryptionKey(seed) = sealObjects[proof.sealObjectId].encryptionKey)

\* C30: the ciphertextHash of every proof record is the SHA-256 of the bytes
\* its registration handed to the blob store and its fileHash the SHA-256 of
\* the uploaded document; and a retrieval that is granted and for which the
\* blob store returned exactly those bytes passes the integrity check and
\* returns the document.
C30_HashesBindUploadedBytes ==
  /\ \A c \in DOMAIN cvProofs :
       /\ cvProofs[c].ciphertextHash = sha256(UploadedBytes(cvProofs[c]))
       /\ cvProofs[c].fileHash = sha256(requests[cvProofs[c].sealObjectId].doc)
       /\ (resp.op = "register" /\ resp.status = 201 /\ resp.target = c)
            => blobStore[cvProofs[c].contentId] = UploadedBytes(cvProofs[c])
  /\ (/\ RetrievalFetched
      /\ resp.approved
      /\ blobStore[cvProofs[resp.target].contentId] = UploadedBytes(cvProofs[resp.target]))
       => /\ ~IntegrityFailure
          /\ resp.status = 200
          /\ Includes(resp.steps, "computeCiphertextHash")
          /\ resp.body = Def(requests[cvProofs[resp.target].sealObjectId].doc)

\* reached: a retrieval granted by the secret code got the document from the
\* untouched blob
C30_Witness ==
  /\ resp.op = "decrypted"
  /\ RetrievalFetched
  /\ Truthy(resp.secretAccessCode)
  /\ resp.approved
  /\ resp.status = 200
  /\ blobStore[cvProofs[resp.target].contentId] = UploadedBytes(cvProofs[resp.target])

====
